---- MODULE Spec2Model ----
(***************************************************************************)
(* CityForge: satellite raster ingestion, quality filtering, region        *)
(* extraction and resilience scoring.                                      *)
(*                                                                         *)
(* A raster is represented by its histogram: the number of pixels of each  *)
(* kind, a kind fixing what the code reads of a pixel (QC code, Kelvin     *)
(* value, position relative to the clip box).  Every count the code takes  *)
(* of a raster (mask sums, valid pixel counts) is a sum over the           *)
(* histogram.                                                              *)
(***************************************************************************)
EXTENDS Integers, Sequences, FiniteSets, TLC

VARIABLES
    ok_qc,          \* QC scan: the QC code of the pixel scanned last
    qc_n,           \* QC scan: number of pixels scanned
    qc_mask,        \* QC scan: _qc_decode of ok_qc, per tolerance
    qc_accepted,    \* QC scan: accepted-pixel count of the raster, per tolerance
    use_real_data,  \* settings: real NASA credentials are configured
    lst_pc,         \* fetch_lst_data: position
    backoff,        \* fetch_lst_data: index into date_backoffs
    remaining,      \* fetch_lst_data: candidates of the window not yet iterated
    ds,             \* fetch_lst_data: the granule opened for the candidate
    qc_tol,         \* fetch_lst_data: tolerance of the next process_modis_lst call
    calls,          \* fetch_lst_data: tolerances processed on ds so far
    lst_result,     \* fetch_lst_data: the returned value
    omi_pc,         \* fetch_air_quality_data: position
    omi_product,    \* _fetch_real_omi_data: index into omi_products
    omi_result,     \* fetch_air_quality_data: the returned value
    gpm_pc,         \* fetch_precipitation_data: position
    gpm_result,     \* fetch_precipitation_data: the returned value
    ing_pc,         \* ingest_all_data / process_nasa_datasets: position
    datasets,       \* ingest_all_data: the returned mapping
    processed_datasets, \* process_nasa_datasets: the returned mapping
    analysis_results,   \* calculate_city_resilience_score: input
    score_result,       \* calculate_city_resilience_score: returned value
    call_fn,        \* a call of a pure function: the function called
    call_arg,       \* a call of a pure function: its argument
    call_ret        \* a call of a pure function: its returned value

qcVars    == <<ok_qc, qc_n, qc_mask, qc_accepted>>
lstVars   == <<lst_pc, backoff, remaining, ds, qc_tol, calls, lst_result>>
omiVars   == <<omi_pc, omi_product, omi_result>>
gpmVars   == <<gpm_pc, gpm_result>>
ingVars   == <<ing_pc, datasets, processed_datasets>>
scoreVars == <<analysis_results, score_result>>
callVars  == <<call_fn, call_arg, call_ret>>
vars == <<qcVars, use_real_data, callVars, lstVars, omiVars, gpmVars, ingVars, scoreVars>>

None == [none |-> TRUE]

(***************************************************************************)
(* Bounds of the model.                                                    *)
(***************************************************************************)
QcWidth == 7          \* QC codes are the integers of this many bits
MaxQcPixels == 3      \* pixels of the raster scanned by the QC scan
MaxCandidates == 2    \* granules a search returns at most

(***************************************************************************)
(* process_modis_lst._qc_decode                                            *)
(***************************************************************************)
Pow2(n) == 2 ^ n
Shr(x, n) == x \div Pow2(n)
AndMask(x, bits) == x % Pow2(bits)

qa_mand(q) == AndMask(q, 2)
qa_data(q) == AndMask(Shr(q, 2), 2)
lst_err(q) == AndMask(Shr(q, 5), 1)

mand_ok(q, tol) == IF tol > 2 THEN qa_mand(q) <= 2 ELSE qa_mand(q) <= 1
data_ok(q, tol) == IF tol > 1 THEN qa_data(q) <= 2 ELSE qa_data(q) <= 1
err_ok(q) == lst_err(q) = 0

QcDecodeNoRelax(q, tol) ==
    /\ (IF tol > 2 THEN qa_mand(q) <= 1 ELSE qa_mand(q) <= 2)
    /\ data_ok(q, tol)
    /\ err_ok(q)
QcDecodeErrOverride(q, tol) ==
    mand_ok(q, tol) /\ data_ok(q, tol) /\ (err_ok(q) \/ tol > 2)
QcDecodeBit4(q, tol) ==
    mand_ok(q, tol) /\ data_ok(q, tol) /\ AndMask(Shr(q, 4), 1) = 0
QcDecode(q, tol) == mand_ok(q, tol) /\ data_ok(q, tol) /\ err_ok(q)

QcTolerancesDescending == <<3, 2, 1>>
QcTolerances == <<1, 2, 3>>
TolSet == {QcTolerances[i] : i \in DOMAIN QcTolerances}
QcCodes == 0 .. (Pow2(QcWidth) - 1)

(***************************************************************************)
(* QC scan: the mask of a QC raster, pixel by pixel, under each tolerance  *)
(* fetch_lst_data passes, with the sum of the mask the code logs.          *)
(***************************************************************************)
QcScan ==
    /\ qc_n < MaxQcPixels
    /\ \E q \in QcCodes :
        /\ ok_qc' = q
        /\ qc_mask' = [t \in TolSet |-> QcDecode(q, t)]
        /\ qc_accepted' = [t \in TolSet |->
                              qc_accepted[t] + (IF QcDecode(q, t) THEN 1 ELSE 0)]
    /\ qc_n' = qc_n + 1
    /\ UNCHANGED <<use_real_data, callVars, lstVars, omiVars, gpmVars, ingVars, scoreVars>>

(***************************************************************************)
(* MODISProcessor.process_modis_lst on a granule.                          *)
(* A pixel kind: its QC_Day code, its LST_Day_1km value in Kelvin and its  *)
(* position: "in" the Mumbai clip box, "pad" (outside the box, inside the  *)
(* padded index window around the in-box pixels), or "out".                *)
(***************************************************************************)
MinValidPixels == 1000
LstLo == 200
LstHi == 400

PixelKinds ==
    { [qc |-> 0,  lst |-> 300, pos |-> "in"],     \* best quality
      [qc |-> 8,  lst |-> 300, pos |-> "in"],     \* data quality 2
      [qc |-> 2,  lst |-> 300, pos |-> "in"],     \* mandatory QA 2
      [qc |-> 32, lst |-> 300, pos |-> "in"],     \* LST error bit
      [qc |-> 0,  lst |-> 300, pos |-> "pad"],
      [qc |-> 0,  lst |-> 300, pos |-> "out"] }
PixelCounts == {0, 1, MinValidPixels}
Granules ==
    { [has_lst |-> FALSE, has_qc |-> FALSE, pixels |-> [k \in PixelKinds |-> 0]] }
    \cup [has_lst : {TRUE}, has_qc : BOOLEAN, pixels : [PixelKinds -> PixelCounts]]

RECURSIVE SumCounts(_, _)
SumCounts(pixels, S) ==
    IF S = {} THEN 0
    ELSE LET k == CHOOSE x \in S : TRUE
         IN  pixels[k] + SumCounts(pixels, S \ {k})

RangeMaskClosed(lst) == (lst >= LstLo) /\ (lst <= LstHi)
RangeMask(lst) == (lst > LstLo) /\ (lst < LstHi)

\* good_quality_mask (QC layer present) or temp_mask (no QC layer)
GoodQuality(g, k, tol) ==
    IF g.has_qc THEN QcDecode(k.qc, tol) /\ RangeMask(k.lst)
    ELSE RangeMask(k.lst)

mumbai_mask(k) == k.pos = "in"
MumbaiPixels(g) == SumCounts(g.pixels, {k \in PixelKinds : mumbai_mask(k)})

\* the pixels of the returned dataset: the padded window when the tile has
\* pixels in the clip box, the full tile otherwise
Subset(g) ==
    IF MumbaiPixels(g) > 0
    THEN {k \in PixelKinds : k.pos \in {"in", "pad"}}
    ELSE PixelKinds

ProcessModisLst(g, tol) ==
    [ valid_pixel_count |->
          SumCounts(g.pixels, {k \in Subset(g) : GoodQuality(g, k, tol)}),
      qc_tolerance  |-> tol,
      mumbai_pixels |-> MumbaiPixels(g),
      size          |-> SumCounts(g.pixels, Subset(g)),
      clipped       |-> MumbaiPixels(g) > 0 ]

(***************************************************************************)
(* RealMODISLSTIngester.fetch_lst_data                                     *)
(***************************************************************************)
date_backoffs == <<0, 7, 14, 21, 28, 45, 60, 75, 90>>

UsableAtLeast(valid) == valid >= MinValidPixels
UsableAny(valid) == valid >= 0
Usable(valid) == valid > MinValidPixels

LstReturn(value) ==
    /\ lst_pc' = "done"
    /\ lst_result' = value

\* lines 113-146: credentials check and login
LstStart ==
    /\ lst_pc = "start"
    /\ IF ~use_real_data
       THEN LstReturn(None)
       ELSE \E authenticated \in BOOLEAN :
               IF authenticated
               THEN lst_pc' = "search" /\ lst_result' = lst_result
               ELSE LstReturn(None)
    /\ UNCHANGED <<backoff, remaining, ds, qc_tol, calls>>
    /\ UNCHANGED <<qcVars, use_real_data, callVars, omiVars, gpmVars, ingVars, scoreVars>>

\* lines 150-173: one date window: the Mumbai-bounded search, then the broad one
LstSearch ==
    /\ lst_pc = "search"
    /\ backoff <= Len(date_backoffs)
    /\ \E bounded \in 0 .. MaxCandidates, broad \in 0 .. MaxCandidates :
          LET results == IF bounded = 0 THEN broad ELSE bounded
          IN  IF results = 0
              THEN /\ backoff' = backoff + 1
                   /\ UNCHANGED <<lst_pc, remaining>>
              ELSE /\ lst_pc' = "candidate"
                   /\ remaining' = results
                   /\ UNCHANGED backoff
    /\ UNCHANGED <<ds, qc_tol, calls, lst_result>>
    /\ UNCHANGED <<qcVars, use_real_data, callVars, omiVars, gpmVars, ingVars, scoreVars>>

\* lines 203-208: every window tried, nothing usable
LstExhausted ==
    /\ lst_pc = "search"
    /\ backoff > Len(date_backoffs)
    /\ LstReturn(None)
    /\ UNCHANGED <<backoff, remaining, ds, qc_tol, calls>>
    /\ UNCHANGED <<qcVars, use_real_data, callVars, omiVars, gpmVars, ingVars, scoreVars>>

\* lines 176-192: download and open the next candidate of the window
LstCandidate ==
    /\ lst_pc = "candidate"
    /\ remaining > 0
    /\ \/ /\ \E failure \in {"download_failed", "no_files", "open_failed"} :
                remaining' = remaining - 1
          /\ UNCHANGED <<lst_pc, ds, qc_tol, calls>>
       \/ /\ \E g \in Granules : ds' = g
          /\ lst_pc' = "process"
          /\ qc_tol' = 1
          /\ calls' = <<>>
          /\ UNCHANGED remaining
    /\ UNCHANGED <<backoff, lst_result>>
    /\ UNCHANGED <<qcVars, use_real_data, callVars, omiVars, gpmVars, ingVars, scoreVars>>

\* line 176: the window's candidates are used up; line 150: next window
LstNextWindow ==
    /\ lst_pc = "candidate"
    /\ remaining = 0
    /\ lst_pc' = "search"
    /\ backoff' = backoff + 1
    /\ UNCHANGED <<remaining, ds, qc_tol, calls, lst_result>>
    /\ UNCHANGED <<qcVars, use_real_data, callVars, omiVars, gpmVars, ingVars, scoreVars>>

\* lines 194-201: one process_modis_lst call; qc_tol is the index into (1, 2, 3)
LstProcess ==
    /\ lst_pc = "process"
    /\ IF ~ds.has_lst
       THEN \* process_modis_lst raises; the outer except returns None
            /\ LstReturn(None)
            /\ UNCHANGED <<remaining, ds, qc_tol, calls>>
       ELSE LET processed == ProcessModisLst(ds, QcTolerances[qc_tol])
            IN  /\ calls' = Append(calls, QcTolerances[qc_tol])
                /\ IF Usable(processed.valid_pixel_count)
                   THEN /\ LstReturn(processed)
                        /\ UNCHANGED <<remaining, ds, qc_tol>>
                   ELSE IF qc_tol < Len(QcTolerances)
                   THEN /\ qc_tol' = qc_tol + 1
                        /\ UNCHANGED <<lst_pc, remaining, ds, lst_result>>
                   ELSE \* rejected: ds is not read again before it is rebound
                        /\ lst_pc' = "candidate"
                        /\ remaining' = remaining - 1
                        /\ ds' = None
                        /\ UNCHANGED <<qc_tol, lst_result>>
    /\ UNCHANGED backoff
    /\ UNCHANGED <<qcVars, use_real_data, callVars, omiVars, gpmVars, ingVars, scoreVars>>

(***************************************************************************)
(* RealAuraOMIIngester._process_omi_hdf_file on a downloaded swath file.   *)
(* A swath pixel kind: "in" or "out" of the Mumbai bounds widened by the   *)
(* 0.1 degree buffer, and its value: positive, not positive, or NaN.       *)
(* grid_data is represented by where its values come from: the method,     *)
(* the number of in-region observations they are computed from, whether    *)
(* they are drawn from a random generator, and which draw it was;          *)
(* coverage_fraction is <<numerator, denominator>> where the call computes *)
(* it and <<>> where it does not.                                          *)
(***************************************************************************)
GridSide == 25
OmiMinPixels == 5
SparseK == 3          \* a pixel count at or below OmiMinPixels
NumDraws == 2         \* distinct outcomes of one random grid draw

OmiKinds ==
    { [pos |-> "in",  val |-> "positive"],
      [pos |-> "in",  val |-> "nonpositive"],
      [pos |-> "in",  val |-> "nan"],
      [pos |-> "out", val |-> "positive"],
      [pos |-> "out", val |-> "nonpositive"] }
SwathCounts == {0, SparseK, OmiMinPixels + 1}
OmiFiles ==
    { [structure_ok |-> FALSE, has_data |-> FALSE, has_coords |-> FALSE,
       swath |-> [k \in OmiKinds |-> 0]],
      [structure_ok |-> TRUE, has_data |-> FALSE, has_coords |-> TRUE,
       swath |-> [k \in OmiKinds |-> 0]] }
    \cup { f \in [structure_ok : {TRUE}, has_data : {TRUE}, has_coords : BOOLEAN,
                  swath : [OmiKinds -> SwathCounts]] :
             SumCounts(f.swath, OmiKinds) > 0 }
Draws == 1 .. NumDraws
omi_products == <<"OMNO2", "OMSO2">>

\* mumbai_pixels: swath pixels inside the buffered bounds
OmiMumbaiPixels(f) == SumCounts(f.swath, {k \in OmiKinds : k.pos = "in"})
\* valid_values: in-region pixels that are not NaN and > 0
OmiValidValues(f) ==
    SumCounts(f.swath, {k \in OmiKinds : k.pos = "in" /\ k.val = "positive"})
\* main_data[main_data > 0]: what global_mean is taken over
OmiGlobalPositive(f) ==
    SumCounts(f.swath, {k \in OmiKinds : k.val = "positive"})

\* lines 476-519: np.random.lognormal scaled by the swath's global statistics
StatisticalGrid(f, draw) ==
    [ method |-> "lognormal",
      n_obs |-> 0,
      random |-> TRUE,
      draw |-> draw,
      all_nan |-> OmiGlobalPositive(f) = 0,
      coverage_fraction |-> <<>> ]
\* lines 444-473: inverse distance weighting of valid_values
InterpolatedGrid(f) ==
    [ method |-> "idw",
      n_obs |-> OmiValidValues(f),
      random |-> FALSE,
      draw |-> 0,
      all_nan |-> FALSE,
      coverage_fraction |-> <<OmiValidValues(f), GridSide * GridSide>> ]

OmiEnoughPixels(n) == n > OmiMinPixels

OmiGridData(f, draw) ==
    IF f.has_coords
    THEN IF OmiMumbaiPixels(f) > 0
         THEN IF OmiEnoughPixels(OmiMumbaiPixels(f))
              THEN IF OmiValidValues(f) > 0
                   THEN InterpolatedGrid(f)
                   ELSE StatisticalGrid(f, draw)
              ELSE StatisticalGrid(f, draw)
         ELSE StatisticalGrid(f, draw)
    ELSE StatisticalGrid(f, draw)

OmiDataVars(product) ==
    IF product = "OMNO2" THEN {"NO2_column", "air_quality_index"}
    ELSE IF product = "OMSO2" THEN {"SO2_column", "air_quality_index"}
    ELSE {"air_quality_index"}

\* region_pixels and region_valid record the mumbai_pixels and
\* len(valid_values) the call computed from the swath's coordinates
ProcessOmiHdfFile(f, product, draw) ==
    IF ~f.structure_ok THEN None
    ELSE IF ~f.has_data THEN None
    ELSE [ data_vars |-> OmiDataVars(product),
           grid_data |-> OmiGridData(f, draw),
           has_coords |-> f.has_coords,
           region_pixels |-> IF f.has_coords THEN OmiMumbaiPixels(f) ELSE 0,
           region_valid |-> IF f.has_coords THEN OmiValidValues(f) ELSE 0,
           attrs |-> {} ]

(***************************************************************************)
(* RealAuraOMIIngester.fetch_air_quality_data / _fetch_real_omi_data       *)
(***************************************************************************)
OmiReturn(value) ==
    /\ omi_pc' = "done"
    /\ omi_result' = value

\* lines 257-291: credentials check and login
OmiStart ==
    /\ ing_pc = "omi"
    /\ omi_pc = "start"
    /\ IF ~use_real_data
       THEN OmiReturn(None)
       ELSE \E authenticated \in BOOLEAN :
               IF authenticated
               THEN omi_pc' = "product" /\ omi_result' = omi_result
               ELSE OmiReturn(None)
    /\ UNCHANGED omi_product
    /\ UNCHANGED <<qcVars, use_real_data, callVars, lstVars, gpmVars, ingVars, scoreVars>>

\* lines 301-337: one product: search, download the first granule, process
OmiProduct ==
    /\ ing_pc = "omi"
    /\ omi_pc = "product"
    /\ omi_product <= Len(omi_products)
    /\ \/ /\ \E failure \in {"search_failed", "no_results", "no_files"} :
                omi_product' = omi_product + 1
          /\ UNCHANGED <<omi_pc, omi_result>>
       \/ \E f \in OmiFiles, draw \in Draws :
             LET processed_ds ==
                     ProcessOmiHdfFile(f, omi_products[omi_product], draw)
             IN  IF processed_ds # None
                 THEN OmiReturn(processed_ds) /\ UNCHANGED omi_product
                 ELSE /\ omi_product' = omi_product + 1
                      /\ UNCHANGED <<omi_pc, omi_result>>
    /\ UNCHANGED <<qcVars, use_real_data, callVars, lstVars, gpmVars, ingVars, scoreVars>>

\* lines 339-344 and 260-263: no product worked
OmiExhausted ==
    /\ ing_pc = "omi"
    /\ omi_pc = "product"
    /\ omi_product > Len(omi_products)
    /\ OmiReturn(None)
    /\ UNCHANGED omi_product
    /\ UNCHANGED <<qcVars, use_real_data, callVars, lstVars, gpmVars, ingVars, scoreVars>>

(***************************************************************************)
(* RealGPMPrecipitationIngester.fetch_precipitation_data                   *)
(***************************************************************************)
GpmDataset(monsoon, draw) ==
    [ data_vars |-> {"precipitation", "flood_risk_score", "precipitation_category"},
      grid_data |-> [ method |-> "uniform",
                      n_obs |-> 0,
                      random |-> TRUE,
                      draw |-> draw,
                      all_nan |-> FALSE,
                      coverage_fraction |-> <<>> ],
      monsoon |-> monsoon,
      attrs |-> {<<"precipitation_source", "real_gpm_satellite_data">>} ]

GpmFetch ==
    /\ ing_pc = "gpm"
    /\ gpm_pc = "start"
    /\ gpm_pc' = "done"
    /\ IF ~use_real_data
       THEN gpm_result' = None
       ELSE \E monsoon \in BOOLEAN, draw \in Draws :
               gpm_result' = GpmDataset(monsoon, draw)
    /\ UNCHANGED <<qcVars, use_real_data, callVars, lstVars, omiVars, ingVars, scoreVars>>

(***************************************************************************)
(* RealNASADataOrchestrator.ingest_all_data and, downstream,               *)
(* DataProcessor.process_nasa_datasets.  No coroutine of the three tasks   *)
(* suspends before it returns, so gather runs them one after the other,    *)
(* in the order of the tasks list.                                         *)
(***************************************************************************)
source_names == <<"modis_lst", "aura_omi", "gpm_precip">>

\* lines 813-816: the MODIS task returns; its frame is gone
IngestModisReturn ==
    /\ ing_pc = "modis"
    /\ lst_pc = "done"
    /\ ing_pc' = "omi"
    /\ lst_pc' = "returned"
    /\ backoff' = 1
    /\ remaining' = 0
    /\ ds' = None
    /\ qc_tol' = 1
    /\ calls' = <<>>
    /\ UNCHANGED <<lst_result, datasets, processed_datasets>>
    /\ UNCHANGED <<qcVars, use_real_data, callVars, omiVars, gpmVars, scoreVars>>

\* lines 818-821
IngestOmiReturn ==
    /\ ing_pc = "omi"
    /\ omi_pc = "done"
    /\ ing_pc' = "gpm"
    /\ omi_pc' = "returned"
    /\ omi_product' = 1
    /\ UNCHANGED <<omi_result, datasets, processed_datasets>>
    /\ UNCHANGED <<qcVars, use_real_data, callVars, lstVars, gpmVars, scoreVars>>

\* lines 856-868: collect the tasks' results by source name
TaskResults == <<lst_result, omi_result, gpm_result>>
Collected(results) ==
    LET present == {i \in DOMAIN source_names : results[i] # None}
        index(name) == CHOOSE i \in DOMAIN source_names : source_names[i] = name
    IN  [name \in {source_names[i] : i \in present} |-> results[index(name)]]

IngestGather ==
    /\ ing_pc = "gpm"
    /\ gpm_pc = "done"
    /\ ing_pc' = "process"
    /\ datasets' = Collected(TaskResults)
    /\ UNCHANGED processed_datasets
    /\ UNCHANGED <<qcVars, use_real_data, callVars, lstVars, omiVars, gpmVars, scoreVars>>

\* data_processor.py lines 344-407: the OMI dataset gets its AQI layers and
\* the data source flag whenever it carries a pollutant column
ProcessAirQualityData(dataset) ==
    IF dataset.data_vars \cap {"NO2_column", "SO2_column"} # {}
    THEN [dataset EXCEPT
            !.data_vars = @ \cup {"overall_aqi", "aqi_category"},
            !.attrs = @ \cup {<<"air_quality_source", "real_omi_satellite_data">>}]
    ELSE dataset
\* data_processor.py lines 409-432: soil moisture is drawn at random
ProcessPrecipitationData(dataset) ==
    IF "precipitation" \in dataset.data_vars
    THEN [dataset EXCEPT
            !.data_vars = @ \cup {"flood_risk_score", "flood_risk_category",
                                  "soil_moisture"}]
    ELSE dataset
\* data_processor.py lines 322-327: processed MODIS is left as it is
ProcessTemperatureData(dataset) == dataset

ProcessSource(source, dataset) ==
    IF source = "modis_lst" THEN ProcessTemperatureData(dataset)
    ELSE IF source = "aura_omi" THEN ProcessAirQualityData(dataset)
    ELSE IF source = "gpm_precip" THEN ProcessPrecipitationData(dataset)
    ELSE dataset

\* data_processor.py lines 285-320
ProcessNasaDatasets ==
    /\ ing_pc = "process"
    /\ ing_pc' = "done"
    /\ processed_datasets' =
          [source \in DOMAIN datasets |-> ProcessSource(source, datasets[source])]
    /\ UNCHANGED datasets
    /\ UNCHANGED <<qcVars, use_real_data, callVars, lstVars, omiVars, gpmVars, scoreVars>>

(***************************************************************************)
(* RecommendationEngine.calculate_city_resilience_score                    *)
(* A result table is represented by what the function reads of it: empty   *)
(* or not, and the mean or the row counts it takes.  Scores are in         *)
(* thousandths of a point, facility rates and flood risks in thousandths.  *)
(***************************************************************************)
ScoreUnit == 1000
DefaultScore == 50

Absent == [absent |-> TRUE]           \* the key is not in analysis_results
EmptyTable == [empty |-> TRUE]
Table(fields) == [empty |-> FALSE, v |-> fields]

WardAirInputs ==
    {Absent, EmptyTable} \cup {Table([mean_aqi |-> a]) : a \in {40, 75, 150, 250, 350}}
HeatIslandInputs ==
    {Absent, EmptyTable} \cup {Table([rows |-> n]) : n \in {1, 500, 2000}}
HealthGapInputs ==
    {Absent, EmptyTable}
    \cup {Table([critical |-> c[1], rows |-> c[2]]) : c \in {<<0, 1>>, <<1, 2>>, <<2, 2>>}}
HealthCapInputs ==
    {Absent, EmptyTable} \cup {Table([facilities_per_1000 |-> f]) : f \in {500, 2000}}
GreenInputs ==
    {Absent, EmptyTable} \cup {Table([combined_green_score |-> g]) : g \in {0, 40000}}
FloodZoneInputs ==
    {Absent, EmptyTable}
    \cup {Table([high_risk |-> c[1], rows |-> c[2]]) : c \in {<<0, 1>>, <<1, 2>>, <<2, 2>>}}
DrainageInputs ==
    {Absent, EmptyTable} \cup {Table([avg_flood_risk |-> r]) : r \in {250, 1000}}

AnalysisResults ==
    [ ward_air_quality : WardAirInputs,
      heat_islands : HeatIslandInputs,
      healthcare_gaps : HealthGapInputs,
      healthcare_capacity : HealthCapInputs,
      green_space_deficits : GreenInputs,
      flood_zones : FloodZoneInputs,
      drainage_analysis : DrainageInputs ]

Max(a, b) == IF a >= b THEN a ELSE b
Min(a, b) == IF a <= b THEN a ELSE b
HasRows(t) == t # Absent /\ ~t.empty

\* lines 491-498
DefaultScores ==
    [ air_quality_score |-> DefaultScore * ScoreUnit,
      heat_resilience_score |-> DefaultScore * ScoreUnit,
      flood_resilience_score |-> DefaultScore * ScoreUnit,
      healthcare_access_score |-> DefaultScore * ScoreUnit,
      green_space_score |-> DefaultScore * ScoreUnit ]
DomainKeys == DOMAIN DefaultScores

\* the steps of the comment at lines 506-511 in place of the slopes
AirQualityScoreStepped(avg_aqi) ==
    IF avg_aqi <= 50 THEN 100 * ScoreUnit
    ELSE IF avg_aqi <= 100 THEN 80 * ScoreUnit
    ELSE IF avg_aqi <= 200 THEN 50 * ScoreUnit
    ELSE IF avg_aqi <= 300 THEN 20 * ScoreUnit
    ELSE 0
\* lines 512-523
AirQualityScoreOf(avg_aqi) ==
    Max(0,
        IF avg_aqi <= 50 THEN 100 * ScoreUnit
        ELSE IF avg_aqi <= 100 THEN (100 - (avg_aqi - 50)) * ScoreUnit
        ELSE IF avg_aqi <= 200 THEN 50 * ScoreUnit - (avg_aqi - 100) * 300
        ELSE IF avg_aqi <= 300 THEN 20 * ScoreUnit - (avg_aqi - 200) * 200
        ELSE 0)
\* lines 531-535: heat_coverage = min(total_area / 1000, 1.0)
HeatScoreOf(total_area) ==
    Max(0, 100 * ScoreUnit - 80 * Min(total_area, 1000))
\* lines 543-547
HealthGapScoreOf(critical_gaps, total_gaps) ==
    Max(0, 100 * ScoreUnit - (critical_gaps * 100 * ScoreUnit) \div total_gaps)
\* lines 552-553
HealthCapScoreOf(avg_facilities_per_1000) ==
    Min(100 * ScoreUnit, avg_facilities_per_1000 * 100)
\* lines 567-571
FloodZoneScoreOf(high_risk_zones, total_zones) ==
    Max(0, 100 * ScoreUnit - (high_risk_zones * 80 * ScoreUnit) \div total_zones)
\* lines 576-577
DrainageScoreOf(avg_flood_risk) ==
    Max(0, 100 * ScoreUnit - avg_flood_risk * 100)

AirQualityScore(ar, default) ==
    IF HasRows(ar.ward_air_quality)
    THEN AirQualityScoreOf(ar.ward_air_quality.v.mean_aqi)
    ELSE default
HeatScore(ar, default) ==
    IF HasRows(ar.heat_islands) /\ ar.heat_islands.v.rows > 0
    THEN HeatScoreOf(ar.heat_islands.v.rows)
    ELSE default
HealthScore(ar, default) ==
    IF ar.healthcare_gaps # Absent
    THEN IF HasRows(ar.healthcare_gaps) /\ ar.healthcare_gaps.v.rows > 0
         THEN HealthGapScoreOf(ar.healthcare_gaps.v.critical,
                               ar.healthcare_gaps.v.rows)
         ELSE default
    ELSE IF HasRows(ar.healthcare_capacity)
         THEN HealthCapScoreOf(ar.healthcare_capacity.v.facilities_per_1000)
         ELSE default
GreenScore(ar, default) ==
    IF HasRows(ar.green_space_deficits)
    THEN ar.green_space_deficits.v.combined_green_score
    ELSE default
FloodScore(ar, default) ==
    IF ar.flood_zones # Absent
    THEN IF HasRows(ar.flood_zones) /\ ar.flood_zones.v.rows > 0
         THEN FloodZoneScoreOf(ar.flood_zones.v.high_risk, ar.flood_zones.v.rows)
         ELSE default
    ELSE IF HasRows(ar.drainage_analysis)
         THEN DrainageScoreOf(ar.drainage_analysis.v.avg_flood_risk)
         ELSE default

\* lines 500-578: the five domain scores
DomainScores(ar) ==
    [ air_quality_score |-> AirQualityScore(ar, DefaultScores.air_quality_score),
      heat_resilience_score |-> HeatScore(ar, DefaultScores.heat_resilience_score),
      flood_resilience_score |-> FloodScore(ar, DefaultScores.flood_resilience_score),
      healthcare_access_score |->
          HealthScore(ar, DefaultScores.healthcare_access_score),
      green_space_score |-> GreenScore(ar, DefaultScores.green_space_score) ]

RECURSIVE SumScores(_, _)
SumScores(sc, keys) ==
    IF keys = {} THEN 0
    ELSE LET k == CHOOSE x \in keys : TRUE
         IN  sc[k] + SumScores(sc, keys \ {k})
\* line 581: np.mean(list(scores.values())[:-1])
OverallScore(sc) == SumScores(sc, DOMAIN sc) \div Cardinality(DOMAIN sc)

\* lines 610-621
DetermineCityStatus(overall_score) ==
    IF overall_score >= 80 * ScoreUnit THEN "Highly Resilient"
    ELSE IF overall_score >= 65 * ScoreUnit THEN "Moderately Resilient"
    ELSE IF overall_score >= 50 * ScoreUnit THEN "Developing Resilience"
    ELSE IF overall_score >= 35 * ScoreUnit THEN "Vulnerable"
    ELSE "Highly Vulnerable"

CalculateCityResilienceScore ==
    /\ score_result = None
    /\ LET sc == DomainScores(analysis_results)
           overall == OverallScore(sc)
       IN  score_result' =
               [ resilience_scores |->
                     [key \in DomainKeys \cup {"overall_resilience_score"} |->
                         IF key \in DomainKeys THEN sc[key] ELSE overall],
                 city_status |-> DetermineCityStatus(overall) ]
    /\ UNCHANGED analysis_results
    /\ UNCHANGED <<qcVars, use_real_data, callVars, lstVars, omiVars, gpmVars, ingVars>>

(***************************************************************************)
(* DataNormalizer.  A raster is the sequence of its pixel values.  Real    *)
(* numbers are fixed-point integers: a concentration is a number of        *)
(* 1/ConcUnit units, a temperature of 1/TempUnit degrees, and so on, and   *)
(* the arithmetic is exact.  On the input values drawn below the double    *)
(* precision results of the code equal the exact ones wherever the code    *)
(* truncates or compares them; temperature_normalized, which the code      *)
(* neither truncates nor compares, is exact up to rounding in the last     *)
(* place (56.00000000000001 for 34 degrees).                               *)
(***************************************************************************)
RasterLen == 2        \* pixels of the rasters handed to the normalizers
Rasters(V) == [1 .. RasterLen -> V]

Clip(x, lo, hi) == IF x < lo THEN lo ELSE IF x > hi THEN hi ELSE x
SetMin(S) == CHOOSE x \in S : \A y \in S : x <= y
SetMax(S) == CHOOSE x \in S : \A y \in S : x >= y

\* ---- normalize_air_quality ----
ConcUnit == 2
aqi_breakpoints ==
    [ pm25 |-> << <<0, 30, 0, 50>>, <<30, 60, 51, 100>>, <<60, 90, 101, 200>>,
                  <<90, 120, 201, 300>>, <<120, 250, 301, 400>> >>,
      pm10 |-> << <<0, 50, 0, 50>>, <<50, 100, 51, 100>>, <<100, 250, 101, 200>>,
                  <<250, 350, 201, 300>>, <<350, 430, 301, 400>> >>,
      no2  |-> << <<0, 40, 0, 50>>, <<40, 80, 51, 100>>, <<80, 180, 101, 200>>,
                  <<180, 280, 201, 300>>, <<280, 400, 301, 400>> >>,
      so2  |-> << <<0, 40, 0, 50>>, <<40, 80, 51, 100>>, <<80, 380, 101, 200>>,
                  <<380, 800, 201, 300>>, <<800, 1600, 301, 400>> >> ]
KnownPollutants == DOMAIN aqi_breakpoints

\* c_low <= concentration <= c_high
InPiece(piece, concentration) ==
    /\ piece[1] * ConcUnit <= concentration
    /\ concentration <= piece[2] * ConcUnit
\* int(((aqi_high - aqi_low) / (c_high - c_low)) * (concentration - c_low) + aqi_low)
PieceAqi(piece, concentration) ==
    ((piece[4] - piece[3]) * (concentration - piece[1] * ConcUnit))
        \div ((piece[2] - piece[1]) * ConcUnit) + piece[3]

CalculateAqiLastMatch(concentration, pollutant) ==
    IF pollutant \notin KnownPollutants THEN 50
    ELSE LET breakpoints == aqi_breakpoints[pollutant]
             hits == {k \in 1 .. Len(breakpoints) : InPiece(breakpoints[k], concentration)}
         IN  IF hits = {} THEN 400
             ELSE PieceAqi(breakpoints[SetMax(hits)], concentration)
\* the first piece that contains the concentration decides
calculate_aqi(concentration, pollutant) ==
    IF pollutant \notin KnownPollutants THEN 50
    ELSE LET breakpoints == aqi_breakpoints[pollutant]
             hits == {k \in 1 .. Len(breakpoints) : InPiece(breakpoints[k], concentration)}
         IN  IF hits = {} THEN 400
             ELSE PieceAqi(breakpoints[SetMin(hits)], concentration)

classify_aqi(aqi) ==
    IF aqi <= 50 THEN "Good"
    ELSE IF aqi <= 100 THEN "Moderate"
    ELSE IF aqi <= 200 THEN "Poor"
    ELSE IF aqi <= 300 THEN "Very Poor"
    ELSE "Severe"

\* results: '<pollutant>_aqi' is pollutant_aqi[pollutant], '<pollutant>' is
\* pollutant[pollutant]; overall_aqi and aqi_category are <<>> where the code
\* leaves the keys out
normalize_air_quality(pollutant_data) ==
    LET known == DOMAIN pollutant_data \cap KnownPollutants
        pollutant_aqi ==
            [p \in known |->
                [i \in DOMAIN pollutant_data[p] |-> calculate_aqi(pollutant_data[p][i], p)]]
        shape == DOMAIN pollutant_data[CHOOSE p \in known : TRUE]
        overall_aqi ==
            IF known = {} THEN <<>>
            ELSE [i \in shape |-> SetMax({pollutant_aqi[p][i] : p \in known})]
    IN  [ pollutant_aqi |-> pollutant_aqi,
          pollutant     |-> pollutant_data,
          overall_aqi   |-> overall_aqi,
          aqi_category  |-> [i \in DOMAIN overall_aqi |-> classify_aqi(overall_aqi[i])] ]

\* concentrations around every breakpoint, below 0 and above the last one
Concentrations(p) ==
    UNION { { piece[1] * ConcUnit - 1, piece[1] * ConcUnit, piece[1] * ConcUnit + 1,
              piece[2] * ConcUnit - 1, piece[2] * ConcUnit, piece[2] * ConcUnit + 1 } :
            piece \in { aqi_breakpoints[p][k] : k \in 1 .. Len(aqi_breakpoints[p]) } }
PairConcentrations == { 30 * ConcUnit, 40 * ConcUnit, 90 * ConcUnit }
PollutantData ==
    UNION { [{p} -> Rasters(Concentrations(p))] : p \in KnownPollutants }
    \cup [{"co"} -> Rasters(PairConcentrations)]
    \cup [{"no2", "so2"} -> Rasters(PairConcentrations)]

NormalizeAirQuality ==
    /\ call_fn = "none"
    /\ \E pollutant_data \in PollutantData :
          /\ call_fn' = "normalize_air_quality"
          /\ call_arg' = pollutant_data
          /\ call_ret' = normalize_air_quality(pollutant_data)
    /\ UNCHANGED <<qcVars, use_real_data, lstVars, omiVars, gpmVars, ingVars, scoreVars>>

\* ---- normalize_temperature ----
TempUnit == 2
ClassifyHeatStressInclusive(temp) ==
    IF temp <= 30 * TempUnit THEN "Low"
    ELSE IF temp <= 35 * TempUnit THEN "Moderate"
    ELSE IF temp <= 40 * TempUnit THEN "High"
    ELSE "Extreme"
ClassifyHeatStressShifted(temp) ==
    IF temp < 30 * TempUnit THEN "Low"
    ELSE IF temp < 33 * TempUnit THEN "Moderate"
    ELSE IF temp < 37 * TempUnit THEN "High"
    ELSE "Extreme"
classify_heat_stress(temp) ==
    IF temp < 30 * TempUnit THEN "Low"
    ELSE IF temp < 35 * TempUnit THEN "Moderate"
    ELSE IF temp < 40 * TempUnit THEN "High"
    ELSE "Extreme"

\* np.clip((temp_celsius - 20) / 25 * 100, 0, 100), in 1/TempUnit points
temp_normalized(temp) ==
    Clip(((temp - 20 * TempUnit) * 100) \div 25, 0, 100 * TempUnit)

normalize_temperature(temp_celsius) ==
    [ temperature_normalized |->
          [i \in DOMAIN temp_celsius |-> temp_normalized(temp_celsius[i])],
      heat_stress_category |->
          [i \in DOMAIN temp_celsius |-> classify_heat_stress(temp_celsius[i])],
      temperature_celsius |-> temp_celsius ]

\* half degrees around 20, 30, 35, 40 and 45 degrees, and between them
TempValues ==
    { 36, 39, 40, 41, 50, 59, 60, 61, 64, 69, 70, 71, 75, 79, 80, 81, 89, 90, 91, 100 }
ScenarioTemperatures ==
    << 28 * TempUnit, 30 * TempUnit, 32 * TempUnit,
       34 * TempUnit, 36 * TempUnit, 38 * TempUnit >>
TempRasters == Rasters(TempValues) \cup {ScenarioTemperatures}

NormalizeTemperature ==
    /\ call_fn = "none"
    /\ \E temp_celsius \in TempRasters :
          /\ call_fn' = "normalize_temperature"
          /\ call_arg' = temp_celsius
          /\ call_ret' = normalize_temperature(temp_celsius)
    /\ UNCHANGED <<qcVars, use_real_data, lstVars, omiVars, gpmVars, ingVars, scoreVars>>

\* ---- normalize_precipitation ----
PrecipUnit == 10      \* precipitation in tenths of a millimetre
SoilUnit == 100       \* soil moisture in hundredths
RiskUnit == 1000      \* flood risk in thousandths

classify_precip(precip) ==
    IF precip * 10 < 25 * PrecipUnit THEN "Light"
    ELSE IF precip < 10 * PrecipUnit THEN "Moderate"
    ELSE IF precip < 35 * PrecipUnit THEN "Heavy"
    ELSE "Very Heavy"

\* np.clip(precip_data / 50, 0, 1)
precip_risk(precip) == Clip((precip * RiskUnit) \div (50 * PrecipUnit), 0, RiskUnit)
\* np.clip(soil_moisture / 0.5, 0, 1)
soil_factor(soil) == Clip((soil * 10 * RiskUnit) \div (5 * SoilUnit), 0, RiskUnit)

FloodRiskUncapped(precip, soil_given, soil) ==
    IF ~soil_given THEN precip_risk(precip)
    ELSE precip_risk(precip) + (soil_factor(soil) * 3) \div 10
\* soil_given: soil_moisture is not None
flood_risk(precip, soil_given, soil) ==
    IF ~soil_given THEN precip_risk(precip)
    ELSE Min(precip_risk(precip) + (soil_factor(soil) * 3) \div 10, RiskUnit)

classify_flood_risk(risk) ==
    IF risk * 100 < 25 * RiskUnit THEN "Low"
    ELSE IF risk * 100 < 50 * RiskUnit THEN "Medium"
    ELSE IF risk * 100 < 75 * RiskUnit THEN "High"
    ELSE "Critical"

\* soil_moisture is <<>> for None
normalize_precipitation(precip_data, soil_moisture) ==
    LET soil_given == soil_moisture # <<>>
        risk == [i \in DOMAIN precip_data |->
                    flood_risk(precip_data[i], soil_given,
                               IF soil_given THEN soil_moisture[i] ELSE 0)]
    IN  [ precipitation_mm |-> precip_data,
          precipitation_category |->
              [i \in DOMAIN precip_data |-> classify_precip(precip_data[i])],
          flood_risk_score |-> risk,
          flood_risk_category |->
              [i \in DOMAIN precip_data |-> classify_flood_risk(risk[i])] ]

PrecipValues == { -10, 0, 24, 25, 100, 124, 125, 249, 250, 350, 374, 375, 400, 500, 600 }
SoilValues == { -5, 0, 25, 50, 60 }
PrecipArgs ==
    [ precip_data : Rasters(PrecipValues),
      soil_moisture : {<<>>} \cup Rasters(SoilValues) ]

NormalizePrecipitation ==
    /\ call_fn = "none"
    /\ \E arg \in PrecipArgs :
          /\ call_fn' = "normalize_precipitation"
          /\ call_arg' = arg
          /\ call_ret' = normalize_precipitation(arg.precip_data, arg.soil_moisture)
    /\ UNCHANGED <<qcVars, use_real_data, lstVars, omiVars, gpmVars, ingVars, scoreVars>>

\* ---- normalize_ndvi ----
NdviUnit == 4
NormalizeNdviNoClip(ndvi_values) ==
    [i \in DOMAIN ndvi_values |-> (100 * (ndvi_values[i] + NdviUnit)) \div (2 * NdviUnit)]
\* (((np.clip(ndvi_values, -1, 1) + 1) / 2) * 100).astype(int)
normalize_ndvi(ndvi_values) ==
    [i \in DOMAIN ndvi_values |->
        (100 * (Clip(ndvi_values[i], -NdviUnit, NdviUnit) + NdviUnit)) \div (2 * NdviUnit)]

NdviValues == (-NdviUnit - 2) .. (NdviUnit + 2)

NormalizeNdvi ==
    /\ call_fn = "none"
    /\ \E ndvi_values \in Rasters(NdviValues) :
          /\ call_fn' = "normalize_ndvi"
          /\ call_arg' = ndvi_values
          /\ call_ret' = normalize_ndvi(ndvi_values)
    /\ UNCHANGED <<qcVars, use_real_data, lstVars, omiVars, gpmVars, ingVars, scoreVars>>

(***************************************************************************)
(* MODISProcessor.create_geographic_coordinates and the Mumbai mask of     *)
(* process_modis_lst.  A tile is tile_size = 1111950.5197665 m wide and    *)
(* high, which is 10 degrees of arc on the sphere of the sinusoidal        *)
(* projection; projected coordinates are in degrees of arc (x and y over   *)
(* R * pi / 180), so that lat = y and lon = x / cos(lat).  Grids are in    *)
(* thousandths of a degree.                                                *)
(***************************************************************************)
TileGrid == 21        \* rows and columns of the granule (1200 in the native grid)
tile_size == 10
DegUnit == 1000

\* lines 46-58: the table holds h 14..27, v 0..11
KnownTile(tile_id) == tile_id.h \in 14 .. 27 /\ tile_id.v \in 0 .. 11
tile_bounds(tile_id) ==
    [ left   |-> (tile_id.h - 18) * tile_size,
      right  |-> (tile_id.h - 18) * tile_size + tile_size,
      top    |-> (9 - tile_id.v) * tile_size,
      bottom |-> (9 - tile_id.v) * tile_size - tile_size ]

DefaultTile == [h |-> 25, v |-> 6]
\* a file name part that starts with 'h' and holds 'v', or the default
get_tile_from_filename(filename) ==
    IF filename.has_tile THEN [h |-> filename.h, v |-> filename.v] ELSE DefaultTile
\* lines 70-74
BoundsOf(tile_id) ==
    IF KnownTile(tile_id) THEN tile_bounds(tile_id) ELSE tile_bounds(DefaultTile)

\* np.linspace(start, stop, num)[k]
Linspace(start, stop, num, k) ==
    start * DegUnit + (k * (stop - start) * DegUnit) \div (num - 1)

\* 10000 * cos of the whole degrees 0 .. 90, interpolated linearly between
CosTable ==
    << 10000, 9998, 9994, 9986, 9976, 9962, 9945, 9925, 9903, 9877, 9848, 9816, 9781,
       9744, 9703, 9659, 9613, 9563, 9511, 9455, 9397, 9336, 9272, 9205, 9135, 9063,
       8988, 8910, 8829, 8746, 8660, 8572, 8480, 8387, 8290, 8192, 8090, 7986, 7880,
       7771, 7660, 7547, 7431, 7314, 7193, 7071, 6947, 6820, 6691, 6561, 6428, 6293,
       6157, 6018, 5878, 5736, 5592, 5446, 5299, 5150, 5000, 4848, 4695, 4540, 4384,
       4226, 4067, 3907, 3746, 3584, 3420, 3256, 3090, 2924, 2756, 2588, 2419, 2250,
       2079, 1908, 1736, 1564, 1392, 1219, 1045, 872, 698, 523, 349, 175, 0 >>
Abs(x) == IF x < 0 THEN -x ELSE x
CosE4(lat) ==
    LET a == Abs(lat)
        d == a \div DegUnit
        f == a % DegUnit
    IN  IF d >= 90 THEN 0
        ELSE CosTable[d + 1] - ((CosTable[d + 1] - CosTable[d + 2]) * f) \div DegUnit

\* the Transformer of the sinusoidal projection to EPSG:4326
lat_grid(shape, bounds, r) == Linspace(bounds.top, bounds.bottom, shape[1], r)
lon_grid(shape, bounds, r, c) ==
    LET cosine == CosE4(lat_grid(shape, bounds, r))
    IN  IF cosine = 0 THEN 0
        ELSE (Linspace(bounds.left, bounds.right, shape[2], c) * 10000) \div cosine

\* process_modis_lst, lines 203-212
MumbaiMaskAt(shape, bounds, r, c) ==
    /\ lat_grid(shape, bounds, r) >= 18500
    /\ lat_grid(shape, bounds, r) <= 19500
    /\ lon_grid(shape, bounds, r, c) >= 72500
    /\ lon_grid(shape, bounds, r, c) <= 73200
MumbaiPixelsOf(shape, bounds) ==
    Cardinality({ rc \in (0 .. shape[1] - 1) \X (0 .. shape[2] - 1) :
                    MumbaiMaskAt(shape, bounds, rc[1], rc[2]) })

\* file names: every tile of h 12..29, v 0..13, and a name without a tile part
Filenames ==
    [ has_tile : {TRUE}, h : 12 .. 29, v : 0 .. 13 ]
    \cup { [has_tile |-> FALSE, h |-> 0, v |-> 0] }

\* process_modis_lst, lines 110-117 and 203-215: the tile of the file name,
\* its coordinate grids and the number of grid pixels in the Mumbai clip box
CreateGeographicCoordinates ==
    /\ call_fn = "none"
    /\ \E filename \in Filenames :
          LET shape == << TileGrid, TileGrid >>
              tile_id == get_tile_from_filename(filename)
              bounds == BoundsOf(tile_id)
          IN  /\ call_fn' = "create_geographic_coordinates"
              /\ call_arg' = [filename |-> filename, shape |-> shape, tile_id |-> tile_id]
              /\ call_ret' =
                    [ bounds  |-> bounds,
                      lat_max |-> lat_grid(shape, bounds, 0),
                      lat_min |-> lat_grid(shape, bounds, shape[1] - 1),
                      mumbai_pixels |-> MumbaiPixelsOf(shape, bounds) ]
    /\ UNCHANGED <<qcVars, use_real_data, lstVars, omiVars, gpmVars, ingVars, scoreVars>>

(***************************************************************************)
(* MODISProcessor.process_modis_lst on the pixels of a raster: the values  *)
(* of the temperature layer it returns.  Kelvin values are whole numbers,  *)
(* Celsius values hundredths of a degree.                                  *)
(***************************************************************************)
CelsiusUnit == 100
KelvinZero == 27315   \* 273.15 K

EnvelopeKinds ==
    [ qc : {0, 32}, lst : {199, 200, 201, 399, 400, 401}, pos : {"in", "pad", "out"} ]
EnvelopeGranules ==
    [ has_lst : {TRUE}, has_qc : BOOLEAN, pixels : Rasters(EnvelopeKinds) ]

\* the pixels of the returned dataset: the padded window around the pixels
\* in the clip box, the full tile when there are none
Window(g) ==
    IF \E i \in DOMAIN g.pixels : mumbai_mask(g.pixels[i])
    THEN {i \in DOMAIN g.pixels : g.pixels[i].pos \in {"in", "pad"}}
    ELSE DOMAIN g.pixels

\* lst_day_celsius.where(mask, np.nan): <<>> is NaN
TemperatureOf(g, k, tol) ==
    IF GoodQuality(g, k, tol) THEN << k.lst * CelsiusUnit - KelvinZero >> ELSE << >>

ProcessModisLstRaster(g, tol) ==
    LET temperature == [i \in Window(g) |-> TemperatureOf(g, g.pixels[i], tol)]
    IN  [ temperature |-> temperature,
          valid_pixel_count |-> Cardinality({i \in Window(g) : temperature[i] # << >>}),
          qc_tolerance |-> tol ]

ProcessModisLstCall ==
    /\ call_fn = "none"
    /\ \E g \in EnvelopeGranules, tol \in TolSet :
          /\ call_fn' = "process_modis_lst"
          /\ call_arg' = [ds |-> g, qc_tolerance |-> tol]
          /\ call_ret' = ProcessModisLstRaster(g, tol)
    /\ UNCHANGED <<qcVars, use_real_data, lstVars, omiVars, gpmVars, ingVars, scoreVars>>

(***************************************************************************)
(* MumbaiWardIngester.fetch_ward_boundaries and the ward tables of the     *)
(* analyzers.  The wards are a grid of WardRows x WardCols rectangles over *)
(* the city bounds; coordinates are whole numbers of 1/WardSpan of a ward  *)
(* side, measured from the south-west corner of the city bounds.           *)
(***************************************************************************)
WardRows == 4
WardCols == 6
WardSpan == 2         \* coordinate units per ward side
WardNumbers == 1 .. (WardRows * WardCols)

\* int(area_sqkm * np.random.uniform(5000, 25000)); area_sqkm is about 51.3
Populations == { 260000, 1000000 }

fetch_ward_boundaries(population) ==
    [ n \in WardNumbers |->
        LET i == (n - 1) \div WardCols
            j == (n - 1) % WardCols
        IN  [ ward_number |-> n,
              south |-> i * WardSpan,
              north |-> (i + 1) * WardSpan,
              west  |-> j * WardSpan,
              east  |-> (j + 1) * WardSpan,
              population |-> population[n] ] ]
WardCollections ==
    { fetch_ward_boundaries([n \in WardNumbers |-> p]) : p \in Populations }

\* ward.geometry.contains(Point(lon, lat)): the interior of the rectangle
Contains(ward, lat, lon) ==
    /\ ward.south < lat /\ lat < ward.north
    /\ ward.west < lon /\ lon < ward.east

\* coordinates outside the bounds, on the outer edges, inside a ward and on
\* the edge shared by two wards
EdgeCoords(n) ==
    { -1, 0, 1, WardSpan, WardSpan + 1, n * WardSpan - 1, n * WardSpan, n * WardSpan + 1 }
Increasing(s) == \A i \in DOMAIN s, j \in DOMAIN s : i < j => s[i] < s[j]
GridRasters(lat_values, lon_values, cell_values) ==
    UNION { [ lats : {<< lat >>}, lons : {lons},
              values : [ {1} \X (1 .. RasterLen) -> cell_values ] ] :
            lat \in lat_values,
            lons \in { s \in Rasters(lon_values) : Increasing(s) } }
Cells(data) == (DOMAIN data.lats) \X (DOMAIN data.lons)
CellsIn(data, ward) ==
    { c \in Cells(data) : Contains(ward, data.lats[c[1]], data.lons[c[2]]) }

\* ---- AirQualityAnalyzer.analyze_ward_air_quality ----
aqi_thresholds ==
    << << "Good", 0, 50 >>, << "Moderate", 51, 100 >>, << "Poor", 101, 200 >>,
       << "Very Poor", 201, 300 >>, << "Severe", 301, 500 >> >>
\* the first category with low <= sum / count <= high, "Good" when there is none
WardAqiCategory(sum, count) ==
    LET hits == { k \in DOMAIN aqi_thresholds :
                     /\ aqi_thresholds[k][2] * count <= sum
                     /\ sum <= aqi_thresholds[k][3] * count }
    IN  IF hits = {} THEN "Good" ELSE aqi_thresholds[SetMin(hits)][1]

\* mean_aqi is the pair << sum, count >>
WardAirRow(data, ward) ==
    LET cells == CellsIn(data, ward)
        sum == SumCounts(data.values, cells)
        count == Cardinality(cells)
    IN  [ ward_number |-> ward.ward_number,
          mean_aqi |-> << sum, count >>,
          max_aqi |-> SetMax({ data.values[c] : c \in cells }),
          aqi_category |-> WardAqiCategory(sum, count),
          population |-> ward.population,
          affected_population |-> IF sum > 100 * count THEN ward.population ELSE 0 ]

RECURSIVE WardAirRows(_, _, _)
WardAirRows(data, wards, n) ==
    IF n = 0 THEN << >>
    ELSE IF CellsIn(data, wards[n]) # {}
         THEN Append(WardAirRows(data, wards, n - 1), WardAirRow(data, wards[n]))
         ELSE WardAirRows(data, wards, n - 1)

\* the returned table, and the cells each ward sampled (ward_aqi_values)
analyze_ward_air_quality(data, wards) ==
    IF ~data.has_overall_aqi
    THEN [ rows |-> << >>, sampled |-> [n \in DOMAIN wards |-> {}] ]
    ELSE [ rows |-> WardAirRows(data, wards, Len(wards)),
           sampled |-> [n \in DOMAIN wards |-> CellsIn(data, wards[n])] ]

AirQualityData ==
    { [ has_overall_aqi |-> h, lats |-> g.lats, lons |-> g.lons, values |-> g.values ] :
        h \in BOOLEAN,
        g \in GridRasters(EdgeCoords(WardRows), EdgeCoords(WardCols), {40, 150}) }

AnalyzeWardAirQuality ==
    /\ call_fn = "none"
    /\ \E data \in AirQualityData, wards \in WardCollections :
          /\ call_fn' = "analyze_ward_air_quality"
          /\ call_arg' = [data |-> data, wards |-> wards]
          /\ call_ret' = analyze_ward_air_quality(data, wards)
    /\ UNCHANGED <<qcVars, use_real_data, lstVars, omiVars, gpmVars, ingVars, scoreVars>>

\* ---- FloodRiskAnalyzer.analyze_drainage_capacity ----
\* points inside a ward, on a shared edge and outside the bounds
PointLats == { 1, WardSpan }
PointLons == { -1, 1, WardSpan, WardSpan + 1 }
\* flood zones are points with a flood_risk_score in thousandths
FloodZones == [ lat : PointLats, lon : PointLons, flood_risk_score : {200, 600} ]

\* geometry.within(ward.geometry), for the points of a table
ItemsWithin(items, ward) ==
    { k \in DOMAIN items : Contains(ward, items[k].lat, items[k].lon) }

\* avg_flood_risk is the pair << sum, count >>, population_at_risk the
\* pair << numerator, denominator >>
DrainageRow(flood_zones, ward) ==
    LET zones == ItemsWithin(flood_zones, ward)
        sum == SumCounts([k \in zones |-> flood_zones[k].flood_risk_score], zones)
        count == Cardinality(zones)
        high_risk_count ==
            Cardinality({ k \in zones : flood_zones[k].flood_risk_score * 2 >= RiskUnit })
    IN  [ ward_number |-> ward.ward_number,
          flood_zones_count |-> count,
          avg_flood_risk |-> << sum, count >>,
          max_flood_risk |-> SetMax({ flood_zones[k].flood_risk_score : k \in zones }),
          high_risk_zones |-> high_risk_count,
          drainage_capacity_needed |-> high_risk_count * 100,
          population_at_risk |->
              IF sum * 4 > count * RiskUnit
              THEN << ward.population * sum, count * RiskUnit >>
              ELSE << 0, 1 >> ]

RECURSIVE DrainageRows(_, _, _)
DrainageRows(flood_zones, wards, n) ==
    IF n = 0 THEN << >>
    ELSE IF ItemsWithin(flood_zones, wards[n]) # {}
         THEN Append(DrainageRows(flood_zones, wards, n - 1),
                     DrainageRow(flood_zones, wards[n]))
         ELSE DrainageRows(flood_zones, wards, n - 1)

analyze_drainage_capacity(flood_zones, wards) ==
    [ rows |-> DrainageRows(flood_zones, wards, Len(wards)) ]

AnalyzeDrainageCapacity ==
    /\ call_fn = "none"
    /\ \E flood_zones \in {<< >>} \cup Rasters(FloodZones), wards \in WardCollections :
          /\ call_fn' = "analyze_drainage_capacity"
          /\ call_arg' = [flood_zones |-> flood_zones, wards |-> wards]
          /\ call_ret' = analyze_drainage_capacity(flood_zones, wards)
    /\ UNCHANGED <<qcVars, use_real_data, lstVars, omiVars, gpmVars, ingVars, scoreVars>>

\* ---- HealthcareAccessAnalyzer.analyze_ward_healthcare_capacity ----
\* capacity_beds is 0 for None, as after fillna(0)
Facilities ==
    [ lat : PointLats, lon : PointLons, amenity : {"hospital"}, capacity_beds : {50} ]
    \cup [ lat : PointLats, lon : PointLons, amenity : {"clinic", "pharmacy"},
           capacity_beds : {0} ]

\* facilities_per_1000 and beds_per_1000 are pairs << numerator, denominator >>
HealthcareRow(facilities, ward) ==
    LET inside == ItemsWithin(facilities, ward)
        count == Cardinality(inside)
        total_beds == SumCounts([k \in inside |-> facilities[k].capacity_beds], inside)
        amenity_count(a) == Cardinality({ k \in inside : facilities[k].amenity = a })
    IN  [ ward_number |-> ward.ward_number,
          population |-> ward.population,
          hospitals |-> amenity_count("hospital"),
          clinics |-> amenity_count("clinic"),
          pharmacies |-> amenity_count("pharmacy"),
          total_facilities |-> count,
          total_beds |-> total_beds,
          facilities_per_1000 |-> << count * 1000, ward.population >>,
          beds_per_1000 |-> << total_beds * 1000, ward.population >>,
          adequacy |-> IF count * 1000 * 2 < ward.population THEN "Insufficient"
                       ELSE IF count * 1000 < ward.population THEN "Adequate"
                       ELSE "Good" ]

RECURSIVE HealthcareRows(_, _, _)
HealthcareRows(facilities, wards, n) ==
    IF n = 0 THEN << >>
    ELSE Append(HealthcareRows(facilities, wards, n - 1),
                HealthcareRow(facilities, wards[n]))

analyze_ward_healthcare_capacity(facilities, wards) ==
    [ rows |-> HealthcareRows(facilities, wards, Len(wards)) ]

AnalyzeWardHealthcareCapacity ==
    /\ call_fn = "none"
    /\ \E facilities \in Rasters(Facilities), wards \in WardCollections :
          /\ call_fn' = "analyze_ward_healthcare_capacity"
          /\ call_arg' = [facilities |-> facilities, wards |-> wards]
          /\ call_ret' = analyze_ward_healthcare_capacity(facilities, wards)
    /\ UNCHANGED <<qcVars, use_real_data, lstVars, omiVars, gpmVars, ingVars, scoreVars>>

\* ---- GreenSpaceAnalyzer.identify_green_space_deficits ----
green_space_target_sqm_per_person == 9
\* a green space is a square polygon with an area_sqm attribute
GreenSpaces ==
    [ south : {0, 1}, west : {0}, size : {1, WardSpan}, area_sqm : {12000, 308000} ]
\* geometry.within(ward.geometry) of a square: no part of it outside the ward
SquareWithin(g, ward) ==
    /\ ward.south <= g.south /\ g.south + g.size <= ward.north
    /\ ward.west <= g.west /\ g.west + g.size <= ward.east

\* vegetation_data: no dataset, or a raster with a green_score layer
VegetationData ==
    { [ has_green_score |-> FALSE, lats |-> << >>, lons |-> << >>, values |-> << >> ] }
    \cup { [ has_green_score |-> TRUE, lats |-> g.lats, lons |-> g.lons, values |-> g.values ] :
             g \in GridRasters(PointLats, PointLons, {20, 80}) }

\* scores are in thousandths, rounded down; populations are whole thousands
GreenPriority(combined_green_score) ==
    IF combined_green_score < 30 * 1000 THEN "Critical"
    ELSE IF combined_green_score < 50 * 1000 THEN "High"
    ELSE IF combined_green_score < 70 * 1000 THEN "Medium"
    ELSE "Low"

GreenRow(vegetation_data, green_spaces, ward) ==
    LET inside == { k \in DOMAIN green_spaces : SquareWithin(green_spaces[k], ward) }
        total_green_area == SumCounts([k \in inside |-> green_spaces[k].area_sqm], inside)
        cells == IF vegetation_data.has_green_score
                 THEN CellsIn(vegetation_data, ward) ELSE {}
        ndvi_green_score ==
            IF cells = {} THEN 0
            ELSE (SumCounts(vegetation_data.values, cells) * 1000) \div Cardinality(cells)
        target == green_space_target_sqm_per_person
        deficit == Max(0, target * ward.population - total_green_area)
        combined_green_score ==
            (total_green_area * 50) \div (target * (ward.population \div 1000))
                + ndvi_green_score \div 2
    IN  [ ward_number |-> ward.ward_number,
          population |-> ward.population,
          existing_green_space_sqm |-> total_green_area,
          green_space_per_person |-> << total_green_area, ward.population >>,
          ndvi_green_score |-> ndvi_green_score,
          combined_green_score |-> combined_green_score,
          priority |-> GreenPriority(combined_green_score),
          recommended_new_green_space_sqm |-> deficit ]

RECURSIVE GreenRows(_, _, _, _)
GreenRows(vegetation_data, green_spaces, wards, n) ==
    IF n = 0 THEN << >>
    ELSE Append(GreenRows(vegetation_data, green_spaces, wards, n - 1),
                GreenRow(vegetation_data, green_spaces, wards[n]))

\* the returned table, and the cells each ward sampled (green_scores)
identify_green_space_deficits(vegetation_data, green_spaces, wards) ==
    [ rows |-> GreenRows(vegetation_data, green_spaces, wards, Len(wards)),
      sampled |-> [n \in DOMAIN wards |->
                      IF vegetation_data.has_green_score
                      THEN CellsIn(vegetation_data, wards[n]) ELSE {}] ]

IdentifyGreenSpaceDeficits ==
    /\ call_fn = "none"
    /\ \E vegetation_data \in VegetationData, green_spaces \in Rasters(GreenSpaces),
          wards \in WardCollections :
          /\ call_fn' = "identify_green_space_deficits"
          /\ call_arg' = [data |-> vegetation_data, green_spaces |-> green_spaces,
                          wards |-> wards]
          /\ call_ret' = identify_green_space_deficits(vegetation_data, green_spaces, wards)
    /\ UNCHANGED <<qcVars, use_real_data, lstVars, omiVars, gpmVars, ingVars, scoreVars>>

(***************************************************************************)
(* calculate_city_resilience_score as a function of analysis_results, on   *)
(* results in which one domain at a time carries a table.                  *)
(***************************************************************************)
MaxMeanAqi == 400     \* largest mean AQI of a ward table
MaxZones == 4         \* most rows of a flood zone or healthcare gap table

\* lines 487-604: the returned scores and status
calculate_city_resilience_score(ar) ==
    LET sc == DomainScores(ar)
        overall == OverallScore(sc)
    IN  [ resilience_scores |->
              [key \in DomainKeys \cup {"overall_resilience_score"} |->
                  IF key \in DomainKeys THEN sc[key] ELSE overall],
          city_status |-> DetermineCityStatus(overall) ]

NoResults ==
    [ ward_air_quality |-> Absent, heat_islands |-> Absent,
      healthcare_gaps |-> Absent, healthcare_capacity |-> Absent,
      green_space_deficits |-> Absent, flood_zones |-> Absent,
      drainage_analysis |-> Absent ]
With(key, table) == [NoResults EXCEPT ![key] = table]

AirTables == { Table([mean_aqi |-> a]) : a \in 0 .. MaxMeanAqi }
HeatTables ==
    {EmptyTable} \cup { Table([rows |-> n]) : n \in {1, 2, 500, 999, 1000, 1001, 2000} }
GapTables ==
    {EmptyTable}
    \cup { Table([critical |-> c, rows |-> n]) : c \in 0 .. MaxZones, n \in 1 .. MaxZones }
FloodTables ==
    {EmptyTable}
    \cup { Table([high_risk |-> c, rows |-> n]) : c \in 0 .. MaxZones, n \in 1 .. MaxZones }

\* green spaces up to a park of 5 square kilometres, inside ward 1
ParkLands == [ south : {0}, west : {0}, size : {1}, area_sqm : {308000, 5000000} ]
NoVegetation ==
    [ has_green_score |-> FALSE, lats |-> << >>, lons |-> << >>, values |-> << >> ]
\* the wards of the city, or a frame of its first ward alone
WardFrames == WardCollections \cup { SubSeq(w, 1, 1) : w \in WardCollections }
\* what line 559 reads of the table of identify_green_space_deficits
GreenTable(rows) ==
    IF Len(rows) = 0 THEN EmptyTable
    ELSE Table([combined_green_score |->
                   SumCounts([k \in DOMAIN rows |-> rows[k].combined_green_score],
                             DOMAIN rows) \div Len(rows)])
GreenTables ==
    { GreenTable(identify_green_space_deficits(NoVegetation, parks, wards).rows) :
        parks \in Rasters(ParkLands), wards \in WardFrames }

ScoreCallInputs ==
    { With("ward_air_quality", t) : t \in AirTables }
    \cup { With("heat_islands", t) : t \in HeatTables }
    \cup { With("healthcare_gaps", t) :
             t \in { g \in GapTables : g.empty \/ g.v.critical <= g.v.rows } }
    \cup { With("flood_zones", t) :
             t \in { f \in FloodTables : f.empty \/ f.v.high_risk <= f.v.rows } }
    \cup { With("green_space_deficits", t) : t \in GreenTables }

ScoreCall ==
    /\ call_fn = "none"
    /\ \E ar \in ScoreCallInputs :
          /\ call_fn' = "calculate_city_resilience_score"
          /\ call_arg' = ar
          /\ call_ret' = calculate_city_resilience_score(ar)
    /\ UNCHANGED <<qcVars, use_real_data, lstVars, omiVars, gpmVars, ingVars, scoreVars>>

(***************************************************************************)
(* The recommendation generators and RecommendationEngine.  A table is a   *)
(* frame: present under its key or not, and its rows.  A recommendation    *)
(* keeps the fields the engine reads; `intervention` is the position of    *)
(* its text in the interventions list and stands for title and             *)
(* description.  Costs are whole numbers of 1/CostUnit dollars.             *)
(***************************************************************************)
CostUnit == 3
MaxAirRows == 4       \* most rows of a ward air quality table
MaxIslands == 6       \* most heat island points of a table
MaxRecs == 3          \* longest recommendation list summarised

Missing == [ present |-> FALSE, rows |-> << >> ]
Frame(rows) == [ present |-> TRUE, rows |-> rows ]

RECURSIVE Flatten(_)
Flatten(seqs) ==
    IF Len(seqs) = 0 THEN << >> ELSE Head(seqs) \o Flatten(Tail(seqs))

Recommendation(ward_number, intervention_type, priority, cost, count, k, population) ==
    [ ward_number |-> ward_number,
      intervention_type |-> intervention_type,
      priority |-> priority,
      intervention |-> k,
      estimated_cost_usd |-> (cost * CostUnit) \div count,
      affected_population |-> population ]
\* for intervention in interventions: recommendations.append(...)
Interventions(ward_number, intervention_type, priority, cost, count, population) ==
    [ k \in 1 .. count |->
        Recommendation(ward_number, intervention_type, priority, cost, count, k,
                       population) ]

\* lines 57-101; mean_aqi is the pair << sum, count >>
AirQualityRowRecs(ward) ==
    LET sum == ward.mean_aqi[1]
        count == ward.mean_aqi[2]
        priority == IF sum > 200 * count THEN "Critical"
                    ELSE IF sum > 150 * count THEN "High" ELSE "Medium"
        cost == IF sum > 200 * count THEN 500000
                ELSE IF sum > 150 * count THEN 300000 ELSE 150000
    IN  IF sum > 100 * count
        THEN Interventions(ward.ward_number, "air_quality", priority, cost, 3,
                           ward.affected_population)
        ELSE << >>
AirQualityRecommendations(ward_air_quality) ==
    Flatten([ i \in DOMAIN ward_air_quality |-> AirQualityRowRecs(ward_air_quality[i]) ])

\* lines 189-239; population_at_risk is the pair << numerator, denominator >>
FloodRowRecs(ward) ==
    LET priority == IF ward.max_flood_risk * 4 >= 3 * RiskUnit THEN "Critical"
                    ELSE IF ward.max_flood_risk * 2 >= RiskUnit THEN "High" ELSE "Medium"
        cost == IF priority = "Critical" THEN 800000
                ELSE IF priority = "High" THEN 400000 ELSE 150000
    IN  IF ward.high_risk_zones > 0
        THEN Interventions(ward.ward_number, "flood_defense", priority, cost, 3,
                           ward.population_at_risk[1] \div ward.population_at_risk[2])
        ELSE << >>
FloodDefenseRecommendations(drainage_analysis) ==
    Flatten([ i \in DOMAIN drainage_analysis |-> FloodRowRecs(drainage_analysis[i]) ])

\* lines 256-297; facilities_per_1000 is the pair << numerator, denominator >>
HealthcareRowRecs(ward) ==
    LET critical == ward.facilities_per_1000[1] * 5 < ward.facilities_per_1000[2]
    IN  IF ward.adequacy = "Insufficient"
        THEN Interventions(ward.ward_number, "healthcare",
                           IF critical THEN "Critical" ELSE "High",
                           IF critical THEN 1000000 ELSE 500000, 3, ward.population)
        ELSE << >>
HealthcareRecommendations(healthcare_capacity) ==
    Flatten([ i \in DOMAIN healthcare_capacity |->
                HealthcareRowRecs(healthcare_capacity[i]) ])

\* lines 313-354
GreenRowRecs(ward) ==
    IF ward.priority \in {"Critical", "High"}
    THEN Interventions(ward.ward_number, "green_space", ward.priority,
                       IF ward.priority = "Critical" THEN 300000 ELSE 150000, 3,
                       ward.population)
    ELSE << >>
GreenSpaceRecommendations(green_deficits) ==
    Flatten([ i \in DOMAIN green_deficits |-> GreenRowRecs(green_deficits[i]) ])

\* ---- HeatMitigationRecommendationGenerator.generate_recommendations ----
\* a heat island is a point in thousandths of a degree; round(2) of a
\* coordinate that is not half-way between two hundredths
Round2(x) == (x + 5) \div 10
Cluster(point) == << Round2(point.lat), Round2(point.lon) >>
\* lines 130-132: groupby(...).size()
heat_island_areas(heat_islands) == { Cluster(heat_islands[i]) : i \in DOMAIN heat_islands }
heat_island_count(heat_islands, area) ==
    Cardinality({ i \in DOMAIN heat_islands : Cluster(heat_islands[i]) = area })
\* line 150 computes ward_num from the name `index`, which nothing binds, in
\* the loop whose variables are `_` and `area`: the first area that passes
\* line 136 raises NameError before any append
RaisesNameError(heat_islands) ==
    \E area \in heat_island_areas(heat_islands) :
        heat_island_count(heat_islands, area) >= 3
HeatMitigationRecommendations(heat_islands) ==
    IF Len(heat_islands) = 0 THEN << >>
    ELSE IF RaisesNameError(heat_islands) THEN << >>     \* lines 174-176: return []
    ELSE << >>                                           \* no area passes line 136

\* ---- RecommendationEngine.generate_all_recommendations ----
priority_order == [ Critical |-> 0, High |-> 1, Medium |-> 2, Low |-> 3 ]
\* line 417, with the population ascending
SortKeyAscending(rec) == << priority_order[rec.priority], rec.affected_population >>
\* line 417: key=lambda x: (priority_order[x.priority], -x.affected_population)
SortKey(rec) == << priority_order[rec.priority], -rec.affected_population >>
\* comparison of two key tuples
KeyLess(a, b) == a[1] < b[1] \/ (a[1] = b[1] /\ a[2] < b[2])

\* list.sort is stable: an item goes behind the items whose key is not larger
RECURSIVE InsertByKey(_, _)
InsertByKey(sorted, rec) ==
    IF Len(sorted) = 0 THEN << rec >>
    ELSE IF KeyLess(SortKey(rec), SortKey(sorted[Len(sorted)]))
         THEN Append(InsertByKey(SubSeq(sorted, 1, Len(sorted) - 1), rec),
                     sorted[Len(sorted)])
         ELSE Append(sorted, rec)
RECURSIVE SortRecommendations(_)
SortRecommendations(recs) ==
    IF Len(recs) = 0 THEN << >>
    ELSE InsertByKey(SortRecommendations(SubSeq(recs, 1, Len(recs) - 1)),
                     recs[Len(recs)])

\* lines 380-413: all_recommendations before the sort
AllGenerated(ar) ==
    (IF ar.ward_air_quality.present /\ ar.air_quality_hotspots.present
     THEN AirQualityRecommendations(ar.ward_air_quality.rows) ELSE << >>)
    \o (IF ar.heat_islands.present
        THEN HeatMitigationRecommendations(ar.heat_islands.rows) ELSE << >>)
    \o (IF ar.drainage_analysis.present /\ ar.flood_zones.present
        THEN FloodDefenseRecommendations(ar.drainage_analysis.rows) ELSE << >>)
    \o (IF ar.healthcare_capacity.present /\ ar.healthcare_gaps.present
        THEN HealthcareRecommendations(ar.healthcare_capacity.rows) ELSE << >>)
    \o (IF ar.green_space_deficits.present
        THEN GreenSpaceRecommendations(ar.green_space_deficits.rows) ELSE << >>)
generate_all_recommendations(ar) == SortRecommendations(AllGenerated(ar))

\* ward rows of Medium, Critical, High and Critical priority with 500, 200,
\* 800 and 900 people affected, and a ward within the AQI limit
AirRow(ward_number, aqi, population) ==
    [ ward_number |-> ward_number, mean_aqi |-> << aqi, 1 >>,
      affected_population |-> population ]
AirRowChoices ==
    { AirRow(1, 120, 500), AirRow(2, 250, 200), AirRow(3, 180, 800),
      AirRow(4, 250, 900), AirRow(5, 90, 0) }
Distinct(rows) == \A i \in DOMAIN rows, j \in DOMAIN rows : rows[i] = rows[j] => i = j
AirFrames ==
    {Missing}
    \cup { Frame(rows) :
             rows \in UNION { { r \in [1 .. n -> AirRowChoices] : Distinct(r) } :
                              n \in 0 .. MaxAirRows } }
HeatPoint(lat, lon) == [ lat |-> lat, lon |-> lon ]
DrainageFrames ==
    { Missing,
      Frame(<< [ ward_number |-> 4, high_risk_zones |-> 1, max_flood_risk |-> 800,
                 population_at_risk |-> << 900, 1 >> ] >>),
      Frame(<< [ ward_number |-> 1, high_risk_zones |-> 1, max_flood_risk |-> 400,
                 population_at_risk |-> << 1001, 2 >> ],
               [ ward_number |-> 2, high_risk_zones |-> 0, max_flood_risk |-> 300,
                 population_at_risk |-> << 0, 1 >> ] >>) }
CapacityFrames ==
    { Missing,
      Frame(<< [ ward_number |-> 3, adequacy |-> "Insufficient",
                 facilities_per_1000 |-> << 1000, 800 * 10 >>, population |-> 800 ] >>),
      Frame(<< [ ward_number |-> 2, adequacy |-> "Insufficient",
                 facilities_per_1000 |-> << 1000, 200 * 20 >>, population |-> 200 ],
               [ ward_number |-> 5, adequacy |-> "Good",
                 facilities_per_1000 |-> << 1000, 900 >>, population |-> 900 ] >>) }
GreenFrames ==
    { Missing,
      Frame(<< [ ward_number |-> 2, priority |-> "Critical", population |-> 900 ] >>),
      Frame(<< [ ward_number |-> 1, priority |-> "Low", population |-> 500 ],
               [ ward_number |-> 3, priority |-> "High", population |-> 800 ] >>) }
\* every air quality table beside one other table at most, and every
\* combination of the other tables beside an air quality table of one row
RecommendationInputs ==
    [ ward_air_quality : AirFrames,
      air_quality_hotspots : { Missing, Frame(<< >>) },
      heat_islands : { Missing },
      drainage_analysis : { Missing, Frame(<< [ ward_number |-> 4, high_risk_zones |-> 1,
                                                max_flood_risk |-> 800,
                                                population_at_risk |-> << 900, 1 >> ] >>) },
      flood_zones : { Frame(<< >>) },
      healthcare_capacity : { Missing },
      healthcare_gaps : { Missing },
      green_space_deficits : { Missing } ]
    \cup
    [ ward_air_quality : { Missing, Frame(<< AirRow(4, 250, 900) >>) },
      air_quality_hotspots : { Frame(<< >>) },
      heat_islands : { Missing, Frame([ i \in 1 .. 3 |-> HeatPoint(19001, 72800) ]) },
      drainage_analysis : DrainageFrames,
      flood_zones : { Missing, Frame(<< >>) },
      healthcare_capacity : CapacityFrames,
      healthcare_gaps : { Missing, Frame(<< >>) },
      green_space_deficits : GreenFrames ]

GenerateAllRecommendations ==
    /\ call_fn = "none"
    /\ \E ar \in RecommendationInputs :
          /\ call_fn' = "generate_all_recommendations"
          /\ call_arg' = ar
          /\ call_ret' = generate_all_recommendations(ar)
    /\ UNCHANGED <<qcVars, use_real_data, lstVars, omiVars, gpmVars, ingVars, scoreVars>>

\* heat islands of two areas: two points that round to one area, and a third
HeatPoints == { HeatPoint(19001, 72800), HeatPoint(19004, 72800), HeatPoint(19012, 72800) }
HeatIslandTables == UNION { [1 .. n -> HeatPoints] : n \in 0 .. MaxIslands }
HeatGenerateRecommendations ==
    /\ call_fn = "none"
    /\ \E heat_islands \in HeatIslandTables :
          /\ call_fn' = "heat_mitigation_recommendations"
          /\ call_arg' = heat_islands
          /\ call_ret' = HeatMitigationRecommendations(heat_islands)
    /\ UNCHANGED <<qcVars, use_real_data, lstVars, omiVars, gpmVars, ingVars, scoreVars>>

\* ---- RecommendationEngine.create_ward_summary ----
\* a counter for the three priorities the generators assign
PriorityCounterNoLow(priority) ==
    IF priority = "Critical" THEN "critical_priority"
    ELSE IF priority = "High" THEN "high_priority"
    ELSE "medium_priority"
\* lines 464-472: the counter a priority adds to
PriorityCounter(priority) ==
    IF priority = "Critical" THEN "critical_priority"
    ELSE IF priority = "High" THEN "high_priority"
    ELSE IF priority = "Medium" THEN "medium_priority"
    ELSE "low_priority"
\* lines 440-452
NewSummary(rec) ==
    [ ward_number |-> rec.ward_number,
      total_recommendations |-> 0,
      critical_priority |-> 0, high_priority |-> 0,
      medium_priority |-> 0, low_priority |-> 0,
      total_estimated_cost |-> 0,
      intervention_types |-> {},
      affected_population |-> 0,
      recommendations |-> << >> ]
\* lines 454-472
AddToSummary(summary, rec) ==
    LET counter == PriorityCounter(rec.priority)
    IN  [ summary EXCEPT
            !.total_recommendations = @ + 1,
            !.total_estimated_cost = @ + rec.estimated_cost_usd,
            !.intervention_types = @ \cup { rec.intervention_type },
            !.affected_population = Max(@, rec.affected_population),
            !.recommendations =
                Append(@, [ intervention |-> rec.intervention, priority |-> rec.priority,
                            cost |-> rec.estimated_cost_usd ]),
            ![counter] = @ + 1 ]
\* the loop of lines 435-472 over the first n recommendations
RECURSIVE WardSummaries(_, _)
WardSummaries(recommendations, n) ==
    IF n = 0 THEN << >>
    ELSE LET ward_summaries == WardSummaries(recommendations, n - 1)
             rec == recommendations[n]
             ward_num == rec.ward_number
             summary == IF ward_num \in DOMAIN ward_summaries
                        THEN ward_summaries[ward_num] ELSE NewSummary(rec)
         IN  [ w \in DOMAIN ward_summaries \cup { ward_num } |->
                 IF w = ward_num THEN AddToSummary(summary, rec) ELSE ward_summaries[w] ]
create_ward_summary(recommendations) ==
    WardSummaries(recommendations, Len(recommendations))

RecChoices ==
    { Recommendation(w, type, priority, 500000, 3, 1, population) :
        w \in {1, 2}, type \in {"air_quality"},
        priority \in DOMAIN priority_order, population \in {500} }
    \cup { Recommendation(w, "heat_mitigation", priority, 100000, 2, 2, 5000) :
             w \in {2, 24}, priority \in {"High", "Medium"} }
RecLists == UNION { [1 .. n -> RecChoices] : n \in 0 .. MaxRecs }
CreateWardSummary ==
    /\ call_fn = "none"
    /\ \E recommendations \in RecLists :
          /\ call_fn' = "create_ward_summary"
          /\ call_arg' = recommendations
          /\ call_ret' = create_ward_summary(recommendations)
    /\ UNCHANGED <<qcVars, use_real_data, lstVars, omiVars, gpmVars, ingVars, scoreVars>>

(***************************************************************************)
(* The two orchestrators' concurrent ingestion: asyncio.gather over the    *)
(* tasks with return_exceptions=True, and the loop on its results.  The    *)
(* tasks finish in any order, each with a dataset, with None or by raising *)
(* an Exception; gather puts each outcome at the position of its task.     *)
(* call_arg holds the frame of the running call.                           *)
(***************************************************************************)
\* real_nasa_apis.py line 859 and external_apis.py line 295
orchestrator_sources ==
    [ ingest_all_data |-> << "modis_lst", "aura_omi", "gpm_precip" >>,
      ingest_all_external_data |->
          << "worldpop", "healthcare", "green_spaces", "wards", "cpcb_pollution" >> ]

Pending == [ kind |-> "pending", task |-> 0 ]
TaskOutcomes(task) ==
    { [ kind |-> "dataset", task |-> task ], [ kind |-> "none", task |-> 0 ],
      [ kind |-> "exception", task |-> task ] }

\* the results in order of completion, as asyncio.as_completed yields them
CompletionSlot(task, completed) == completed + 1
\* gather: the result list is in the order of the tasks list
GatherSlot(task, completed) == task

\* lines 858-866 (external_apis.py 294-301): keep what is neither an
\* Exception nor None, under the name zipped with it
CollectResults(names, results) ==
    LET kept == { i \in DOMAIN names : results[i].kind = "dataset" }
    IN  [ source \in { names[i] : i \in kept } |->
            results[CHOOSE i \in kept : names[i] = source] ]

GatherStart ==
    /\ call_fn = "none"
    /\ \E fn \in DOMAIN orchestrator_sources :
          /\ call_fn' = fn
          /\ call_arg' = [ pc |-> "gather",
                           pending |-> DOMAIN orchestrator_sources[fn],
                           completed |-> 0,
                           out_of_order |-> FALSE,
                           outcomes |-> [ i \in DOMAIN orchestrator_sources[fn] |-> Pending ],
                           results |-> [ i \in DOMAIN orchestrator_sources[fn] |-> Pending ] ]
    /\ UNCHANGED call_ret
    /\ UNCHANGED <<qcVars, use_real_data, lstVars, omiVars, gpmVars, ingVars, scoreVars>>

\* one task finishes
GatherTaskDone ==
    /\ call_fn \in DOMAIN orchestrator_sources
    /\ call_arg.pc = "gather"
    /\ \E task \in call_arg.pending : \E outcome \in TaskOutcomes(task) :
          call_arg' =
              [ call_arg EXCEPT
                  !.pending = @ \ { task },
                  !.completed = @ + 1,
                  !.out_of_order = @ \/ (\E earlier \in call_arg.pending : earlier < task),
                  !.outcomes[task] = outcome,
                  !.results[GatherSlot(task, call_arg.completed)] = outcome ]
    /\ UNCHANGED <<call_fn, call_ret>>
    /\ UNCHANGED <<qcVars, use_real_data, lstVars, omiVars, gpmVars, ingVars, scoreVars>>

\* gather returns when every task is done; the loop builds the mapping
GatherCollect ==
    /\ call_fn \in DOMAIN orchestrator_sources
    /\ call_arg.pc = "gather"
    /\ call_arg.pending = {}
    /\ call_arg' = [ call_arg EXCEPT !.pc = "returned" ]
    /\ call_ret' = CollectResults(orchestrator_sources[call_fn], call_arg.results)
    /\ UNCHANGED call_fn
    /\ UNCHANGED <<qcVars, use_real_data, lstVars, omiVars, gpmVars, ingVars, scoreVars>>

(***************************************************************************)
(* FloodRiskAnalyzer.assess_flood_risk and the precipitation step before   *)
(* it.  The grid is one row of RasterLen pixels at longitudes 1, 2, ...;   *)
(* elevations are whole numbers of 1/ElevUnit metres and a number drawn by *)
(* np.random is a choice from a set of draws.  Flood risks are rounded     *)
(* down to thousandths.                                                    *)
(***************************************************************************)
ElevUnit == 100
GridLons == [ j \in 1 .. RasterLen |-> j ]

\* line 322-327, in thousandths
risk_thresholds ==
    << << "Low", 0, 250 >>, << "Medium", 250, 500 >>, << "High", 500, 750 >>,
       << "Critical", 750, 1000 >> >>
\* lines 366-370: the first category with low <= risk < high, "Low" if none
RiskCategory(adjusted_risk) ==
    LET hits == { k \in DOMAIN risk_thresholds :
                     /\ risk_thresholds[k][2] <= adjusted_risk
                     /\ adjusted_risk < risk_thresholds[k][3] }
    IN  IF hits = {} THEN "Low" ELSE risk_thresholds[SetMin(hits)][1]
\* line 372
RiskPriority(adjusted_risk) ==
    IF adjusted_risk * 4 >= 3 * RiskUnit THEN "Critical"
    ELSE IF adjusted_risk * 2 >= RiskUnit THEN "High"
    ELSE "Medium"
\* lines 346-351: a draw from uniform(0, 50), lowered by up to 70 % from
\* the first longitude to the last
SyntheticElevation(draws, lons) ==
    LET lo == SetMin({ lons[j] : j \in DOMAIN lons })
        hi == SetMax({ lons[j] : j \in DOMAIN lons })
    IN  [ j \in DOMAIN draws |->
            (draws[j] * (10 * (hi - lo) - 7 * (lons[j] - lo))) \div (10 * (hi - lo)) ]
\* lines 358-360
AdjustedRisk(risk_score, elevation) ==
    LET elevation_factor_e3 ==
            (Max(0, 20 * ElevUnit - elevation) * RiskUnit) \div (20 * ElevUnit)
    IN  Min(RiskUnit, risk_score + (elevation_factor_e3 * 3) \div 10)
\* lines 363-382: the record of a pixel
FloodZone(precipitation_data, elevation_data, j) ==
    LET adjusted_risk == AdjustedRisk(precipitation_data.flood_risk_score[j],
                                      elevation_data[j])
    IN  [ longitude |-> precipitation_data.lons[j],
          flood_risk_score |-> adjusted_risk,
          risk_category |-> RiskCategory(adjusted_risk),
          priority |-> RiskPriority(adjusted_risk),
          elevation_m |-> elevation_data[j],
          precipitation_mm |-> precipitation_data.precipitation_mm[j] ]
RECURSIVE FloodZoneRows(_, _, _)
FloodZoneRows(precipitation_data, elevation_data, n) ==
    IF n = 0 THEN << >>
    ELSE IF 4 * AdjustedRisk(precipitation_data.flood_risk_score[n], elevation_data[n])
                >= RiskUnit
         THEN Append(FloodZoneRows(precipitation_data, elevation_data, n - 1),
                     FloodZone(precipitation_data, elevation_data, n))
         ELSE FloodZoneRows(precipitation_data, elevation_data, n - 1)
\* elevation_data is << >> for None; draws are the numbers np.random gives
assess_flood_risk(precipitation_data, elevation_data, draws) ==
    IF ~precipitation_data.has_flood_risk_score THEN << >>
    ELSE FloodZoneRows(precipitation_data,
                       IF elevation_data = << >>
                       THEN SyntheticElevation(draws, precipitation_data.lons)
                       ELSE elevation_data,
                       Len(precipitation_data.lons))

RiskRasters == Rasters({ 100, 300, 600, 800, 1000 })
ElevationDraws == { 0, 10 * ElevUnit, 40 * ElevUnit }
AssessFloodRisk ==
    /\ call_fn = "none"
    /\ \E risk \in RiskRasters, has \in BOOLEAN,
          elevation_data \in {<< >>} \cup Rasters({ 0, 20 * ElevUnit }),
          draws \in Rasters(ElevationDraws) :
          LET precipitation_data ==
                  [ has_flood_risk_score |-> has, lons |-> GridLons,
                    flood_risk_score |-> risk,
                    precipitation_mm |-> [ j \in 1 .. RasterLen |-> 0 ] ]
          IN  /\ elevation_data # << >> => draws = [ j \in 1 .. RasterLen |-> 0 ]
              /\ call_fn' = "assess_flood_risk"
              /\ call_arg' = [ precipitation_data |-> precipitation_data,
                               elevation_data |-> elevation_data, draws |-> draws ]
              /\ call_ret' = assess_flood_risk(precipitation_data, elevation_data, draws)
    /\ UNCHANGED <<qcVars, use_real_data, lstVars, omiVars, gpmVars, ingVars, scoreVars>>

\* data_processor.py lines 409-432: soil moisture is np.random.uniform(0.1,
\* 0.6) per pixel, in hundredths
SoilDraws == { 10, 60 }
process_precipitation_data(dataset, soil_draws) ==
    LET normalized == normalize_precipitation(dataset.precipitation, soil_draws)
    IN  [ has_flood_risk_score |-> TRUE, lons |-> dataset.lons,
          precipitation |-> dataset.precipitation,
          precipitation_mm |-> normalized.precipitation_mm,
          precipitation_category |-> normalized.precipitation_category,
          flood_risk_score |-> normalized.flood_risk_score,
          flood_risk_category |-> normalized.flood_risk_category,
          soil_moisture |-> soil_draws ]
\* one run on a GPM dataset: processing, then the flood analysis and the
\* flood score of urban_analytics.py line 703 and recommendation_engine.py
\* lines 564-571
AnalysisRun(dataset, soil_draws, elevation_draws) ==
    LET processed == process_precipitation_data(dataset, soil_draws)
        flood_zones == assess_flood_risk(processed, << >>, elevation_draws)
        high_risk == Cardinality({ k \in DOMAIN flood_zones :
                                     flood_zones[k].flood_risk_score * 2 >= RiskUnit })
    IN  [ processed |-> processed,
          flood_zones |-> flood_zones,
          flood_resilience_score |->
              IF Len(flood_zones) = 0 THEN DefaultScore * ScoreUnit
              ELSE FloodZoneScoreOf(high_risk, Len(flood_zones)) ]
\* two runs on the same ingested dataset
RunAnalysisTwice ==
    /\ call_fn = "none"
    /\ \E precipitation \in Rasters({ 0, 300 }),
          soil \in [ 1 .. 2 -> Rasters(SoilDraws) ],
          elevation \in [ 1 .. 2 -> Rasters({ 0, 40 * ElevUnit }) ] :
          LET dataset == [ precipitation |-> precipitation, lons |-> GridLons ]
          IN  /\ call_fn' = "run_analysis_twice"
              /\ call_arg' = [ dataset |-> dataset, soil |-> soil, elevation |-> elevation ]
              /\ call_ret' = [ run \in 1 .. 2 |->
                                 AnalysisRun(dataset, soil[run], elevation[run]) ]
    /\ UNCHANGED <<qcVars, use_real_data, lstVars, omiVars, gpmVars, ingVars, scoreVars>>

(***************************************************************************)
(* analyze_ward_air_quality on a grid finer than the wards: coordinates in *)
(* 1/(FineScale * WardSpan) of a ward side, so that a ward holds several   *)
(* cells of the AQI raster.                                                *)
(***************************************************************************)
FineScale == 2
Refine(wards) ==
    [ n \in DOMAIN wards |->
        [ wards[n] EXCEPT !.south = @ * FineScale, !.north = @ * FineScale,
                          !.west = @ * FineScale, !.east = @ * FineScale ] ]
\* cells inside ward 1, on its edge with ward 2 and inside ward 2; AQI
\* values are whole numbers (calculate_aqi rounds)
FineAirQualityData ==
    { [ has_overall_aqi |-> TRUE, lats |-> g.lats, lons |-> g.lons, values |-> g.values ] :
        g \in GridRasters({ 1 },
                          { 1, FineScale * WardSpan - 1, FineScale * WardSpan,
                            FineScale * WardSpan + 1 },
                          { 50, 51, 100, 101, 250 }) }
AnalyzeWardAirQualityFine ==
    /\ call_fn = "none"
    /\ \E data \in FineAirQualityData, wards \in { Refine(w) : w \in WardCollections } :
          /\ call_fn' = "analyze_ward_air_quality"
          /\ call_arg' = [data |-> data, wards |-> wards]
          /\ call_ret' = analyze_ward_air_quality(data, wards)
    /\ UNCHANGED <<qcVars, use_real_data, lstVars, omiVars, gpmVars, ingVars, scoreVars>>

InitQcVars ==
    /\ ok_qc = 0
    /\ qc_n = 0
    /\ qc_mask = [t \in TolSet |-> FALSE]
    /\ qc_accepted = [t \in TolSet |-> 0]
InitLstVars ==
    /\ lst_pc = "start"
    /\ backoff = 1
    /\ remaining = 0
    /\ ds = None
    /\ qc_tol = 1
    /\ calls = <<>>
    /\ lst_result = None
InitOmiVars ==
    /\ omi_pc = "start"
    /\ omi_product = 1
    /\ omi_result = None
InitGpmVars ==
    /\ gpm_pc = "start"
    /\ gpm_result = None
InitIngVars ==
    /\ ing_pc = "modis"
    /\ datasets = None
    /\ processed_datasets = None
InitScoreVars ==
    /\ analysis_results = None
    /\ score_result = None
InitCallVars ==
    /\ call_fn = "none"
    /\ call_arg = None
    /\ call_ret = None

InitQC ==
    /\ InitQcVars
    /\ use_real_data = TRUE
    /\ InitCallVars
    /\ InitLstVars /\ InitOmiVars /\ InitGpmVars /\ InitIngVars /\ InitScoreVars
NextQC == QcScan
SpecQC == InitQC /\ [][NextQC]_vars

\* C1: raising the tolerance never turns an accepted QC code into a rejected
\* one, so the accepted-pixel count of a raster never decreases with it.
C1_MonotonicRelaxation ==
    \A t1 \in TolSet, t2 \in TolSet :
        t1 < t2 =>
            /\ (qc_n > 0 /\ qc_mask[t1] => qc_mask[t2])
            /\ qc_accepted[t1] <= qc_accepted[t2]
C1_Witness ==
    /\ qc_n = MaxQcPixels
    /\ qc_accepted[1] >= 1
    /\ qc_accepted[1] < qc_accepted[2]
    /\ qc_accepted[2] < qc_accepted[3]

\* C2: a pixel whose error bit (bit 5) is 1 is rejected at every tolerance.
C2_ErrorBitRejects ==
    (qc_n > 0 /\ (ok_qc \div 32) % 2 = 1) => \A t \in TolSet : ~qc_mask[t]
C2_Witness ==
    /\ qc_n > 0
    /\ (ok_qc \div 32) % 2 = 1
    /\ ok_qc % 32 = 0
    /\ \A t \in TolSet : ~qc_mask[t]

\* C3: a pixel is accepted iff the mandatory field, the data-quality field
\* and the error bit all pass; bit 4 and bits 6 and above do not matter.
C3_Claimed(q, t) ==
    /\ q % 4 <= (IF t > 2 THEN 2 ELSE 1)
    /\ (q \div 4) % 4 <= (IF t > 1 THEN 2 ELSE 1)
    /\ (q \div 32) % 2 = 0
C3_Significant(q) == (q % 16) + 32 * ((q \div 32) % 2)
InitFetch ==
    /\ InitQcVars
    /\ use_real_data \in BOOLEAN
    /\ InitCallVars
    /\ InitLstVars /\ InitOmiVars /\ InitGpmVars /\ InitIngVars /\ InitScoreVars
NextFetch ==
    \/ LstStart
    \/ LstSearch
    \/ LstExhausted
    \/ LstCandidate
    \/ LstNextWindow
    \/ LstProcess
SpecFetch == InitFetch /\ [][NextFetch]_vars

ValidAt(g, tol) == ProcessModisLst(g, tol).valid_pixel_count
Returned == lst_pc = "done" /\ lst_result # None

\* C4: a granule is processed at tolerances 1, 2, 3 in that order; the dataset
\* returned is that granule at the smallest sufficient tolerance, and once a
\* dataset is returned nothing more is processed.
C4_State ==
    /\ (ds # None) =>
          /\ Len(calls) <= Len(QcTolerances)
          /\ \A i \in 1 .. Len(calls) : calls[i] = i
    /\ Returned =>
          /\ calls # <<>>
          /\ lst_result = ProcessModisLst(ds, calls[Len(calls)])
          /\ \A t \in TolSet :
                t < lst_result.qc_tolerance => ValidAt(ds, t) <= MinValidPixels
C4_Step == Returned => UNCHANGED lstVars
C4_AscendingFirstSufficient == [](C4_State) /\ [][C4_Step]_vars
C4_Witness ==
    /\ Returned
    /\ backoff < Len(date_backoffs)
    /\ remaining > 1
    /\ lst_result.qc_tolerance = 2
    /\ calls = <<1, 2>>
    /\ ValidAt(ds, 3) > ValidAt(ds, 2)

\* C5 as stated: a granule with exactly 1000 valid pixels at a tolerance is
\* selected and returned at that tolerance.
C5_AtLeastThreshold ==
    (ds # None /\ ds.has_lst) =>
        \A i \in 1 .. Len(calls) :
            ValidAt(ds, calls[i]) >= MinValidPixels =>
                /\ Returned
                /\ lst_result.qc_tolerance = calls[i]
\* C5 as amended: a tolerance is selected exactly when it yields more than
\* 1000 valid pixels; exactly 1000 is passed over, 1001 is returned.
C5_MoreThanThreshold ==
    (ds # None /\ ds.has_lst) =>
        \A i \in 1 .. Len(calls) :
            IF ValidAt(ds, calls[i]) > MinValidPixels
            THEN Returned /\ lst_result.qc_tolerance = calls[i]
            ELSE ~(Returned /\ lst_result.qc_tolerance = calls[i])
C5_Witness ==
    /\ Returned
    /\ calls = <<1, 2>>
    /\ ValidAt(ds, 1) = MinValidPixels
    /\ lst_result.valid_pixel_count = MinValidPixels + 1

\* C6: whatever fetch_lst_data returns is either None or a processed granule
\* with at least the threshold of valid pixels; with every date window tried
\* and nothing usable it returns None.
C6_NoneOrUsable ==
    lst_pc = "done" =>
        /\ lst_result # None =>
              /\ lst_result.valid_pixel_count >= MinValidPixels
              /\ lst_result = ProcessModisLst(ds, lst_result.qc_tolerance)
        /\ backoff > Len(date_backoffs) => lst_result = None
C6_Witness ==
    /\ lst_pc = "done"
    /\ backoff > Len(date_backoffs)
    /\ lst_result = None
    /\ ds = None
    /\ calls = <<1, 2, 3>>

InitIngest == InitFetch
NextIngest ==
    \/ NextFetch
    \/ IngestModisReturn
    \/ OmiStart
    \/ OmiProduct
    \/ OmiExhausted
    \/ IngestOmiReturn
    \/ GpmFetch
    \/ IngestGather
    \/ ProcessNasaDatasets
SpecIngest == InitIngest /\ [][NextIngest]_vars

IsRandom(dataset) ==
    "grid_data" \in DOMAIN dataset /\ dataset.grid_data.random
TaggedReal(dataset) ==
    \E tag \in dataset.attrs :
        tag[2] \in {"real_omi_satellite_data", "real_gpm_satellite_data"}

\* C7: extraction never turns zero coverage into data: a raster with no pixel
\* inside the (buffered) target region yields no raster for the region, on the
\* MODIS tile path and on the OMI swath path.
C7_ZeroCoverageYieldsNoRaster ==
    /\ (lst_result # None => lst_result.mumbai_pixels > 0)
    /\ (omi_result # None /\ omi_result.has_coords =>
            omi_result.region_pixels > 0)

\* C8: with k valid in-region pixels the result reports coverage k/N and all
\* its values are computed from those k pixels, none from a random source.
C8_SparseCoverageReported ==
    (omi_result # None /\ omi_result.region_valid > 0) =>
        /\ omi_result.grid_data.coverage_fraction =
               <<omi_result.region_valid, GridSide * GridSide>>
        /\ omi_result.grid_data.n_obs = omi_result.region_valid
        /\ ~omi_result.grid_data.random

\* C9: no dataset ingest_all_data returns holds randomly generated values,
\* and none is tagged as real satellite data downstream.
C9_OnlyRetrievedObservations ==
    /\ datasets # None =>
          \A source \in DOMAIN datasets : ~IsRandom(datasets[source])
    /\ processed_datasets # None =>
          \A source \in DOMAIN processed_datasets :
              ~(IsRandom(processed_datasets[source])
                /\ TaggedReal(processed_datasets[source]))

InitScore ==
    /\ InitQcVars
    /\ use_real_data = TRUE
    /\ InitCallVars
    /\ InitLstVars /\ InitOmiVars /\ InitGpmVars /\ InitIngVars
    /\ analysis_results \in AnalysisResults
    /\ score_result = None
NextScore == CalculateCityResilienceScore
SpecScore == InitScore /\ [][NextScore]_vars

\* the analysis_results keys a domain's score is computed from
DomainInputs(ar, key) ==
    IF key = "air_quality_score" THEN {ar.ward_air_quality}
    ELSE IF key = "heat_resilience_score" THEN {ar.heat_islands}
    ELSE IF key = "flood_resilience_score" THEN {ar.flood_zones, ar.drainage_analysis}
    ELSE IF key = "healthcare_access_score"
         THEN {ar.healthcare_gaps, ar.healthcare_capacity}
    ELSE {ar.green_space_deficits}
NoInputData(ar, key) == \A t \in DomainInputs(ar, key) : ~HasRows(t)

\* C10: a domain with no input data gets no score, and the overall score is
\* the mean of the scores of the domains that have data.
C10_MissingDomainOmitted ==
    score_result # None =>
        LET sc == score_result.resilience_scores
            available == {key \in DomainKeys : ~NoInputData(analysis_results, key)}
        IN  available # {} =>
                /\ \A key \in DomainKeys :
                      NoInputData(analysis_results, key) => key \notin DOMAIN sc
                /\ sc.overall_resilience_score =
                      SumScores(sc, available) \div Cardinality(available)

(***************************************************************************)
(* The normalizers, each called once on a raster.                          *)
(***************************************************************************)
InitNorm ==
    /\ InitQcVars
    /\ use_real_data = TRUE
    /\ InitCallVars
    /\ InitLstVars /\ InitOmiVars /\ InitGpmVars /\ InitIngVars /\ InitScoreVars
NextNorm ==
    \/ NormalizeAirQuality
    \/ NormalizeTemperature
    \/ NormalizePrecipitation
    \/ NormalizeNdvi
SpecNorm == InitNorm /\ [][NextNorm]_vars

\* the pollutants of the call that have a breakpoint table
AqiPollutants == DOMAIN call_arg \cap KnownPollutants
\* piece k and piece k+1 of the table of p meet at concentration c
SharedBoundary(p, k, c) ==
    /\ k < Len(aqi_breakpoints[p])
    /\ aqi_breakpoints[p][k][2] = aqi_breakpoints[p][k + 1][1]
    /\ c = aqi_breakpoints[p][k][2] * ConcUnit

\* C11 as stated: at a concentration where two pieces of a breakpoint table
\* meet, both pieces evaluate to the same AQI, which is the one returned.
C11_ContinuousAtBoundaries ==
    call_fn = "normalize_air_quality" =>
        \A p \in AqiPollutants : \A i \in DOMAIN call_arg[p] :
            \A k \in 1 .. Len(aqi_breakpoints[p]) :
                SharedBoundary(p, k, call_arg[p][i]) =>
                    /\ PieceAqi(aqi_breakpoints[p][k], call_arg[p][i])
                         = PieceAqi(aqi_breakpoints[p][k + 1], call_arg[p][i])
                    /\ call_ret.pollutant_aqi[p][i]
                         = PieceAqi(aqi_breakpoints[p][k], call_arg[p][i])

\* C11 as amended: at a concentration where two pieces meet, the AQI returned
\* is the upper AQI of the lower piece, and the upper piece evaluates to one
\* more (NO2 = 40: 50 from the lower piece, 51 from the upper, 50 returned).
C11_LowerPieceAtBoundaries ==
    call_fn = "normalize_air_quality" =>
        \A p \in AqiPollutants : \A i \in DOMAIN call_arg[p] :
            \A k \in 1 .. Len(aqi_breakpoints[p]) :
                SharedBoundary(p, k, call_arg[p][i]) =>
                    /\ call_ret.pollutant_aqi[p][i] = aqi_breakpoints[p][k][4]
                    /\ PieceAqi(aqi_breakpoints[p][k], call_arg[p][i])
                         = aqi_breakpoints[p][k][4]
                    /\ PieceAqi(aqi_breakpoints[p][k + 1], call_arg[p][i])
                         = aqi_breakpoints[p][k][4] + 1
C11_Witness ==
    /\ call_fn = "normalize_air_quality"
    /\ DOMAIN call_arg = {"no2"}
    /\ call_arg["no2"][1] = 40 * ConcUnit
    /\ call_ret.pollutant_aqi["no2"][1] = 50

\* C12: the AQI sub-index is non-decreasing in the concentration, over
\* negative and over-range concentrations too, and is an integer of 0 .. 400.
C12_MonotonicSubIndex ==
    call_fn = "normalize_air_quality" =>
        \A p \in AqiPollutants :
            /\ \A i \in DOMAIN call_arg[p] : call_ret.pollutant_aqi[p][i] \in 0 .. 400
            /\ \A i \in DOMAIN call_arg[p], j \in DOMAIN call_arg[p] :
                  call_arg[p][i] <= call_arg[p][j] =>
                      call_ret.pollutant_aqi[p][i] <= call_ret.pollutant_aqi[p][j]

\* C13: normalize_temperature classifies T as Low below 30, Moderate from 30
\* to below 35, High from 35 to below 40, Extreme from 40; the normalized
\* score is clip((T-20)/25*100, 0, 100), non-decreasing in T, and is 32, 40,
\* 48, 56, 64, 72 for T = 28, 30, 32, 34, 36, 38.
C13_HeatClassesAndScore ==
    call_fn = "normalize_temperature" =>
        LET cat == call_ret.heat_stress_category
            score == call_ret.temperature_normalized
        IN  /\ \A i \in DOMAIN call_arg :
                  LET T == call_arg[i]
                  IN  /\ cat[i] = "Low" <=> T < 30 * TempUnit
                      /\ cat[i] = "Moderate" <=> (30 * TempUnit <= T /\ T < 35 * TempUnit)
                      /\ cat[i] = "High" <=> (35 * TempUnit <= T /\ T < 40 * TempUnit)
                      /\ cat[i] = "Extreme" <=> T >= 40 * TempUnit
                      /\ score[i] * 25 =
                            Clip((T - 20 * TempUnit) * 100, 0, 100 * TempUnit * 25)
                      /\ \A n \in 0 .. 5 :
                            T = (28 + 2 * n) * TempUnit => score[i] = (32 + 8 * n) * TempUnit
            /\ \A i \in DOMAIN call_arg, j \in DOMAIN call_arg :
                  call_arg[i] <= call_arg[j] => score[i] <= score[j]
C13_Witness ==
    /\ call_fn = "normalize_temperature"
    /\ call_arg = << 35 * TempUnit, 40 * TempUnit >>
    /\ call_ret.heat_stress_category = << "High", "Extreme" >>
    /\ call_ret.temperature_normalized = << 60 * TempUnit, 80 * TempUnit >>

\* C14 as stated: the raster 28, 30, 32, 34, 36, 38 is classified Low,
\* Moderate, Moderate, High, High, Extreme.
C14_ScenarioCategories ==
    (call_fn = "normalize_temperature" /\ call_arg = ScenarioTemperatures) =>
        call_ret.heat_stress_category =
            << "Low", "Moderate", "Moderate", "High", "High", "Extreme" >>
\* C14 as amended: the raster 28, 30, 32, 34, 36, 38 is classified Low,
\* Moderate, Moderate, Moderate, High, High.
C14_ScenarioByThresholds ==
    (call_fn = "normalize_temperature" /\ call_arg = ScenarioTemperatures) =>
        call_ret.heat_stress_category =
            << "Low", "Moderate", "Moderate", "Moderate", "High", "High" >>
C14_Witness ==
    /\ call_fn = "normalize_temperature"
    /\ call_arg = ScenarioTemperatures
    /\ call_ret.heat_stress_category[4] = "Moderate"
    /\ call_ret.heat_stress_category[6] = "High"

\* C15: flood_risk = min(clip(precip/50, 0, 1) + clip(soil/0.5, 0, 1) * 0.3, 1)
\* (the soil term only when soil moisture is given) lies in [0, 1] and is
\* classified Low < 0.25 <= Medium < 0.5 <= High < 0.75 <= Critical; precip 40
\* with soil moisture 0.5 scores exactly 1.0, Critical.
C15_FloodRiskScore ==
    call_fn = "normalize_precipitation" =>
        LET risk == call_ret.flood_risk_score
            cat == call_ret.flood_risk_category
            soil_given == call_arg.soil_moisture # <<>>
        IN  \A i \in DOMAIN call_arg.precip_data :
                LET p == call_arg.precip_data[i]
                    \* clip(precip/50, 0, 1) in 1/(50*PrecipUnit)
                    base == Clip(p, 0, 50 * PrecipUnit)
                    \* clip(soil/0.5, 0, 1) * 0.3 in 1/(50*SoilUnit)
                    soil == IF soil_given
                            THEN Clip(call_arg.soil_moisture[i] * 10, 0, 5 * SoilUnit) * 3
                            ELSE 0
                    \* the sum in 1/(50*PrecipUnit*SoilUnit)
                    sum == base * SoilUnit + soil * PrecipUnit
                    one == 50 * PrecipUnit * SoilUnit
                IN  /\ risk[i] * one = Min(sum, one) * RiskUnit
                    /\ 0 <= risk[i] /\ risk[i] <= RiskUnit
                    /\ cat[i] = "Low" <=> 4 * risk[i] < RiskUnit
                    /\ cat[i] = "Medium" <=> (RiskUnit <= 4 * risk[i] /\ 4 * risk[i] < 2 * RiskUnit)
                    /\ cat[i] = "High" <=> (2 * RiskUnit <= 4 * risk[i] /\ 4 * risk[i] < 3 * RiskUnit)
                    /\ cat[i] = "Critical" <=> 4 * risk[i] >= 3 * RiskUnit
                    /\ (p = 40 * PrecipUnit /\ soil_given
                          /\ call_arg.soil_moisture[i] * 2 = SoilUnit)
                       => (risk[i] = RiskUnit /\ cat[i] = "Critical")
C15_Witness ==
    /\ call_fn = "normalize_precipitation"
    /\ call_arg.soil_moisture # <<>>
    /\ call_arg.precip_data[1] = 40 * PrecipUnit
    /\ call_arg.soil_moisture[1] * 2 = SoilUnit
    /\ call_ret.flood_risk_score[1] = RiskUnit
    /\ call_ret.flood_risk_category[1] = "Critical"

\* C16: the green score is the integer part of ((clip(ndvi,-1,1)+1)/2)*100,
\* lies in [0, 100], is non-decreasing in ndvi, and maps -1 to 0, 0 to 50,
\* 1 to 100 and every value outside [-1, 1] to 0 or 100.
C16_GreenScore ==
    call_fn = "normalize_ndvi" =>
        /\ \A i \in DOMAIN call_arg :
              LET n == call_arg[i]
                  green == call_ret[i]
                  clipped == IF n < -NdviUnit THEN -NdviUnit
                             ELSE IF n > NdviUnit THEN NdviUnit ELSE n
              IN  /\ green \in 0 .. 100
                  \* green <= ((clipped + 1) / 2) * 100 < green + 1
                  /\ green * 2 * NdviUnit <= (clipped + NdviUnit) * 100
                  /\ (clipped + NdviUnit) * 100 < (green + 1) * 2 * NdviUnit
                  /\ n = -NdviUnit => green = 0
                  /\ n = 0 => green = 50
                  /\ n = NdviUnit => green = 100
                  /\ n < -NdviUnit => green = 0
                  /\ n > NdviUnit => green = 100
        /\ \A i \in DOMAIN call_arg, j \in DOMAIN call_arg :
              call_arg[i] <= call_arg[j] => call_ret[i] <= call_ret[j]
C16_Witness ==
    /\ call_fn = "normalize_ndvi"
    /\ call_arg = << -NdviUnit - 1, 1 >>
    /\ call_ret = << 0, 62 >>

(***************************************************************************)
(* process_modis_lst on the granule of a file name.                        *)
(***************************************************************************)
InitTile == InitNorm
NextTile ==
    \/ CreateGeographicCoordinates
    \/ ProcessModisLstCall
SpecTile == InitTile /\ [][NextTile]_vars

\* C17 as stated: without a QC layer a pixel is kept if and only if its
\* Kelvin value lies in [200, 400], endpoints included; a kept pixel carries
\* value - 273.15 and a rejected one is missing; with a QC layer the same
\* envelope is applied in conjunction with the QC mask.
C17_ClosedEnvelope ==
    call_fn = "process_modis_lst" =>
        \A i \in DOMAIN call_ret.temperature :
            LET k == call_arg.ds.pixels[i]
                keep == /\ k.lst >= 200 /\ k.lst <= 400
                        /\ (call_arg.ds.has_qc => QcDecode(k.qc, call_arg.qc_tolerance))
            IN  call_ret.temperature[i] =
                    IF keep THEN << k.lst * CelsiusUnit - 27315 >> ELSE << >>
\* C17 as amended: the envelope is open: a pixel is kept if and only if its
\* Kelvin value is more than 200 and less than 400 (and, with a QC layer, the
\* QC mask accepts it); kept pixels carry value - 273.15, the others are
\* missing.
C17_OpenEnvelope ==
    call_fn = "process_modis_lst" =>
        \A i \in DOMAIN call_ret.temperature :
            LET k == call_arg.ds.pixels[i]
                keep == /\ k.lst > 200 /\ k.lst < 400
                        /\ (call_arg.ds.has_qc => QcDecode(k.qc, call_arg.qc_tolerance))
            IN  call_ret.temperature[i] =
                    IF keep THEN << k.lst * CelsiusUnit - 27315 >> ELSE << >>
C17_Witness ==
    /\ call_fn = "process_modis_lst"
    /\ ~call_arg.ds.has_qc
    /\ call_arg.ds.pixels[1].lst = 200
    /\ call_arg.ds.pixels[2].lst = 201
    /\ DOMAIN call_ret.temperature = DOMAIN call_arg.ds.pixels
    /\ call_ret.temperature[1] = << >>
    /\ call_ret.temperature[2] = << -7215 >>

\* C18: the default tile substituted for a tile id that is not in the table
\* covers the target city: its grid has a pixel inside the Mumbai clip box.
C18_DefaultTileCoversCity ==
    (call_fn = "create_geographic_coordinates" /\ ~KnownTile(call_arg.tile_id)) =>
        /\ call_ret.bounds = tile_bounds([h |-> 25, v |-> 6])
        /\ call_ret.mumbai_pixels > 0

(***************************************************************************)
(* The ward tables of the analyzers, each computed once.                   *)
(***************************************************************************)
InitWards == InitNorm
NextWards ==
    \/ AnalyzeWardAirQuality
    \/ AnalyzeDrainageCapacity
    \/ AnalyzeWardHealthcareCapacity
    \/ IdentifyGreenSpaceDeficits
SpecWards == InitWards /\ [][NextWards]_vars

WardTables ==
    { "analyze_ward_air_quality", "analyze_drainage_capacity",
      "analyze_ward_healthcare_capacity", "identify_green_space_deficits" }
\* the cell's coordinate lies in the region the wards tile, edges included
InRegion(data, c) ==
    /\ 0 <= data.lats[c[1]] /\ data.lats[c[1]] <= WardRows * WardSpan
    /\ 0 <= data.lons[c[2]] /\ data.lons[c[2]] <= WardCols * WardSpan

\* C19: each ward table has exactly one row for every ward, also for a ward
\* that contains no raster cell, flood zone, facility or green space.
C19_OneRowPerWard ==
    (call_fn \in WardTables
        /\ (call_fn = "analyze_ward_air_quality" => call_arg.data.has_overall_aqi)) =>
        /\ Len(call_ret.rows) = Len(call_arg.wards)
        /\ \A n \in DOMAIN call_arg.wards :
              Cardinality({ k \in DOMAIN call_ret.rows :
                              call_ret.rows[k].ward_number = call_arg.wards[n].ward_number }) = 1

\* C20: each raster cell is attributed to exactly one ward: no cell is
\* sampled by two wards, and every cell whose coordinate lies in the tiled
\* region, on a shared edge or the outer edge included, is sampled by a ward.
C20_CellInExactlyOneWard ==
    (call_fn \in {"analyze_ward_air_quality", "identify_green_space_deficits"}
        /\ Cells(call_arg.data) # {}
        /\ (call_fn = "analyze_ward_air_quality" => call_arg.data.has_overall_aqi)) =>
        \A c \in Cells(call_arg.data) :
            LET owners == { n \in DOMAIN call_arg.wards : c \in call_ret.sampled[n] }
            IN  /\ Cardinality(owners) <= 1
                /\ InRegion(call_arg.data, c) => Cardinality(owners) = 1

(***************************************************************************)
(* calculate_city_resilience_score, called once on one domain's table.     *)
(***************************************************************************)
InitScoreCalls == InitNorm
NextScoreCalls == ScoreCall
SpecScoreCalls == InitScoreCalls /\ [][NextScoreCalls]_vars

ScoreCalled == call_fn = "calculate_city_resilience_score"
\* the two pieces of the air quality score that meet at a mean AQI
AirPieces(a) ==
    { 100 * ScoreUnit : x \in { a } \cap (0 .. 50) }
    \cup { (150 - a) * ScoreUnit : x \in { a } \cap (50 .. 100) }
    \cup { 50 * ScoreUnit - 300 * (a - 100) : x \in { a } \cap (100 .. 200) }
    \cup { 20 * ScoreUnit - 200 * (a - 200) : x \in { a } \cap (200 .. 300) }
    \cup { 0 : x \in { a } \cap (300 .. MaxMeanAqi + 1) }

HeatFindings(t) == IF t.empty THEN 0 ELSE t.v.rows
FloodShare(t) == IF t.empty THEN << 0, 1 >> ELSE << t.v.high_risk, t.v.rows >>
GapShare(t) == IF t.empty THEN << 0, 1 >> ELSE << t.v.critical, t.v.rows >>
ShareLeq(p, q) == p[1] * q[2] <= q[1] * p[2]
ScoreOf(key, table, domain) ==
    calculate_city_resilience_score(With(key, table)).resilience_scores[domain]

\* C22: in the heat, flood and healthcare domains a result with fewer
\* adverse findings never scores lower than one with more, a result with no
\* findings at all included.
C22_BetterNeverScoresLower ==
    ScoreCalled =>
        /\ call_arg.heat_islands # Absent =>
              \A t \in HeatTables :
                  HeatFindings(call_arg.heat_islands) <= HeatFindings(t) =>
                      call_ret.resilience_scores.heat_resilience_score
                          >= ScoreOf("heat_islands", t, "heat_resilience_score")
        /\ call_arg.flood_zones # Absent =>
              \A t \in FloodTables :
                  (~t.empty => t.v.high_risk <= t.v.rows)
                  /\ ShareLeq(FloodShare(call_arg.flood_zones), FloodShare(t)) =>
                      call_ret.resilience_scores.flood_resilience_score
                          >= ScoreOf("flood_zones", t, "flood_resilience_score")
        /\ call_arg.healthcare_gaps # Absent =>
              \A t \in GapTables :
                  (~t.empty => t.v.critical <= t.v.rows)
                  /\ ShareLeq(GapShare(call_arg.healthcare_gaps), GapShare(t)) =>
                      call_ret.resilience_scores.healthcare_access_score
                          >= ScoreOf("healthcare_gaps", t, "healthcare_access_score")

\* C23: each of the five domain scores is within 0..100, and so is the
\* overall score, the mean of the five.
C23_ScoresWithinRange ==
    ScoreCalled =>
        LET sc == call_ret.resilience_scores
        IN  /\ \A key \in DomainKeys : 0 <= sc[key] /\ sc[key] <= 100 * ScoreUnit
            /\ sc.overall_resilience_score = SumScores(sc, DomainKeys) \div 5
            /\ 0 <= sc.overall_resilience_score
            /\ sc.overall_resilience_score <= 100 * ScoreUnit

(***************************************************************************)
(* The recommendation engine: each function called once.                   *)
(***************************************************************************)
InitRecs == InitNorm
NextRecs ==
    \/ GenerateAllRecommendations
    \/ HeatGenerateRecommendations
    \/ CreateWardSummary
SpecRecs == InitRecs /\ [][NextRecs]_vars

AllCalled == call_fn = "generate_all_recommendations"
TierAndPopulation(recs) ==
    [ i \in DOMAIN recs |-> << recs[i].priority, recs[i].affected_population >> ]
\* the items of a list that have a given tier and population, in list order
Same(recs, rec) ==
    SelectSeq(recs, LAMBDA r : /\ r.priority = rec.priority
                               /\ r.affected_population = rec.affected_population)
\* the four wards of the example, in the order of generation
ExampleCalled ==
    /\ AllCalled
    /\ call_arg.ward_air_quality =
          Frame(<< AirRow(1, 120, 500), AirRow(2, 250, 200), AirRow(3, 180, 800),
                   AirRow(4, 250, 900) >>)
    /\ call_arg.air_quality_hotspots.present
    /\ AllGenerated(call_arg) = AirQualityRecommendations(call_arg.ward_air_quality.rows)

\* C24: the returned list holds the generated recommendations, each as often
\* as generated, by tier from Critical to Low and within a tier by falling
\* affected population, items of equal tier and population in generation
\* order; Medium(500), Critical(200), High(800), Critical(900) come out as
\* Critical(900), Critical(200), High(800), Medium(500).
C24_SortedByTierThenPopulation ==
    AllCalled =>
        LET generated == AllGenerated(call_arg)
            tier(rec) == priority_order[rec.priority]
        IN  /\ Len(call_ret) = Len(generated)
            /\ \A i \in DOMAIN generated :
                  Same(call_ret, generated[i]) = Same(generated, generated[i])
            /\ \A i \in DOMAIN call_ret, j \in DOMAIN call_ret :
                  i < j =>
                      \/ tier(call_ret[i]) < tier(call_ret[j])
                      \/ /\ tier(call_ret[i]) = tier(call_ret[j])
                         /\ call_ret[i].affected_population
                                >= call_ret[j].affected_population
            /\ ExampleCalled =>
                  TierAndPopulation(call_ret) =
                      [ i \in 1 .. 12 |->
                          << << "Critical", 900 >>, << "Critical", 200 >>,
                             << "High", 800 >>, << "Medium", 500 >> >>[(i + 2) \div 3] ]
C24_Witness ==
    /\ ExampleCalled
    /\ Len(call_ret) = 12
    /\ call_ret[1].ward_number = 4 /\ call_ret[4].ward_number = 2
    /\ call_ret[7].ward_number = 3 /\ call_ret[10].ward_number = 1

\* the recommendations returned for the heat islands of one area
AreaRecs(recs, area) == { i \in DOMAIN recs : recs[i].coordinates = area }

\* C29: each area of 3 or more heat islands gets exactly two heat mitigation
\* recommendations, High from 5 islands on and Medium below, an area of
\* fewer than 3 gets none, whatever other areas the table holds.
C29_TwoPerHeatCluster ==
    call_fn = "heat_mitigation_recommendations" =>
        \A area \in heat_island_areas(call_arg) :
            LET size == heat_island_count(call_arg, area)
                recs == AreaRecs(call_ret, area)
            IN  /\ Cardinality(recs) = IF size >= 3 THEN 2 ELSE 0
                /\ \A i \in recs :
                      /\ call_ret[i].intervention_type = "heat_mitigation"
                      /\ call_ret[i].priority = IF size >= 5 THEN "High" ELSE "Medium"

\* C30: there is one summary per distinct ward_number of the list; in each,
\* the four priority counts are the numbers of the ward's recommendations of
\* that priority and add up to total_recommendations, the totals of all
\* wards add up to the length of the list, and total_estimated_cost is the
\* sum of the ward's costs.
C30_WardSummaryPartition ==
    call_fn = "create_ward_summary" =>
        LET recs == call_arg
            wards == { recs[i].ward_number : i \in DOMAIN recs }
            ofWard(w) == { i \in DOMAIN recs : recs[i].ward_number = w }
            ofPriority(w, p) == Cardinality({ i \in ofWard(w) : recs[i].priority = p })
        IN  /\ DOMAIN call_ret = wards
            /\ (Len(recs) > 0 => DOMAIN call_ret # {})
            /\ \A w \in wards :
                  LET summary == call_ret[w]
                  IN  /\ summary.ward_number = w
                      /\ summary.critical_priority = ofPriority(w, "Critical")
                      /\ summary.high_priority = ofPriority(w, "High")
                      /\ summary.medium_priority = ofPriority(w, "Medium")
                      /\ summary.low_priority = ofPriority(w, "Low")
                      /\ summary.total_recommendations =
                            summary.critical_priority + summary.high_priority
                            + summary.medium_priority + summary.low_priority
                      /\ summary.total_estimated_cost =
                            SumCounts([i \in ofWard(w) |-> recs[i].estimated_cost_usd],
                                      ofWard(w))
            /\ SumCounts([w \in wards |-> call_ret[w].total_recommendations], wards)
                  = Len(recs)
C30_Witness ==
    /\ call_fn = "create_ward_summary"
    /\ Len(call_arg) = MaxRecs
    /\ Cardinality(DOMAIN call_ret) = 2
    /\ \E w \in DOMAIN call_ret :
          /\ call_ret[w].total_recommendations = 2
          /\ call_ret[w].low_priority = 1
          /\ call_ret[w].high_priority = 1

(***************************************************************************)
(* Concurrent ingestion by the two orchestrators.                          *)
(***************************************************************************)
InitGather == InitNorm
NextGather ==
    \/ GatherStart
    \/ GatherTaskDone
    \/ GatherCollect
SpecGather == InitGather /\ [][NextGather]_vars

GatherReturned == call_fn \in DOMAIN orchestrator_sources /\ call_arg.pc = "returned"
\* C25: whatever the tasks' outcomes and their order of completion, the call
\* returns a mapping that holds exactly the sources whose task returned a
\* dataset, each source name with the dataset of its own task.
C25_FailuresIsolatedPerSource ==
    GatherReturned =>
        LET names == orchestrator_sources[call_fn]
        IN  /\ DOMAIN call_ret =
                  { names[i] : i \in { t \in DOMAIN names :
                                         call_arg.outcomes[t].kind = "dataset" } }
            /\ \A i \in DOMAIN names :
                  call_arg.outcomes[i].kind = "dataset" =>
                      call_ret[names[i]] = [ kind |-> "dataset", task |-> i ]
C25_Witness ==
    /\ GatherReturned
    /\ call_fn = "ingest_all_data"
    /\ call_arg.out_of_order
    /\ call_arg.outcomes[1].kind = "exception"
    /\ call_arg.outcomes[2].kind = "none"
    /\ DOMAIN call_ret = { "gpm_precip" }

(***************************************************************************)
(* The flood analysis, called once, and two runs on one dataset.           *)
(***************************************************************************)
InitFlood == InitNorm
NextFlood ==
    \/ AssessFloodRisk
    \/ RunAnalysisTwice
SpecFlood == InitFlood /\ [][NextFlood]_vars

\* C26: two runs on the same ingested dataset give the same processed
\* dataset, the same flood zones and the same score.
C26_RunsAgree ==
    call_fn = "run_analysis_twice" => call_ret[1] = call_ret[2]

\* C27: the risk_category of every flood zone record is the class of its own
\* flood_risk_score, Medium from 0.25, High from 0.5 and Critical from 0.75
\* up to 1.0 included, and it is Critical exactly when the priority is.
C27_CategoryMatchesScore ==
    call_fn = "assess_flood_risk" =>
        \A k \in DOMAIN call_ret :
            LET zone == call_ret[k]
            IN  /\ zone.risk_category =
                      IF zone.flood_risk_score * 4 < 2 * RiskUnit THEN "Medium"
                      ELSE IF zone.flood_risk_score * 4 < 3 * RiskUnit THEN "High"
                      ELSE "Critical"
                /\ zone.risk_category = "Critical" <=> zone.priority = "Critical"

(***************************************************************************)
(* The ward air quality table of a raster finer than the wards.            *)
(***************************************************************************)
InitWardAqi == InitNorm
NextWardAqi == AnalyzeWardAirQualityFine
SpecWardAqi == InitWardAqi /\ [][NextWardAqi]_vars

\* C28: the aqi_category of a ward row is the class of its mean AQI: Good up
\* to 50, Moderate up to 100, Poor up to 200, Very Poor up to 300 and Severe
\* above, for whole and fractional means alike.
C28_CategoryOfMeanAqi ==
    call_fn = "analyze_ward_air_quality" =>
        \A k \in DOMAIN call_ret.rows :
            LET row == call_ret.rows[k]
                sum == row.mean_aqi[1]
                count == row.mean_aqi[2]
            IN  row.aqi_category =
                    IF sum <= 50 * count THEN "Good"
                    ELSE IF sum <= 100 * count THEN "Moderate"
                    ELSE IF sum <= 200 * count THEN "Poor"
                    ELSE IF sum <= 300 * count THEN "Very Poor"
                    ELSE "Severe"

==============================================================================
